---- MODULE Spec2Model ----
(***************************************************************************)
(* Share-state serialization of the catalog (BuildShareLink), the feedback *)
(* sender that chooses between the short and the full share link, and the  *)
(* catalog tree they walk.                                                 *)
(***************************************************************************)
EXTENDS Integers, Sequences, FiniteSets, TLC

(***************************************************************************)
(* Bounds of the model.                                                    *)
(***************************************************************************)
\* Number of catalog members (besides the root group) that can be created.
MaxNodes == 3

\* The load() calls made on the ArcGIS group.
MaxLoads == 2

\* Catalog member ids; Root stands for terria.catalog.group, which has no parent.
Ids == 1..MaxNodes
Root == 0

\* The JavaScript value undefined, where it is stored as a value of a key.
Undefined == [undefined |-> TRUE]

VARIABLES
    catalog,            \* id -> the live catalog member (fields of CatalogMember/Group/Item)
    items,              \* group id (or Root) -> ordered ids of its children (CatalogGroup.items)
    terriaInitSources,  \* terria.initSources
    view,               \* viewer mode, splitter: what addViewSettings reads
    pickedFeatures,     \* terria.pickedFeatures.features, <<>> when nothing is picked
    selectedFeature,    \* terria.selectedFeature: <<>> or <<feature>>
    locationMarker,     \* terria.locationMarker: <<>> or <<marker>>
    userProperties,     \* terria.userProperties: name -> value, for the names that are set
    urlShortener,       \* terria.urlShortener: "undefined", "notUsable" or "usable"
    shareDataService,   \* terria.shareDataService: "undefined", "notUsable" or "usable"
    build,              \* what the last getShareData call produced, until the state changes
    link,               \* the URI returned by the last buildShareLink call: <<>> or <<uri>>
    feedbackUrl,        \* whether terria.configParameters.feedbackUrl is defined
    feedback,           \* the sendFeedback call in progress
    group,              \* an ArcGisCatalogGroup: url, blacklist, items, load state
    upstream,           \* the JSON document the ArcGIS server answers ?f=json with
    requests,           \* the provider calls (_load) whose promise has not settled
    loadingPromise,     \* the promise of the load in flight: <<>> or <<its callers>>
    history,            \* what the load() calls made so far did and returned
    tilesItem,          \* a Cesium3DTilesCatalogItem: _tileset, isShown, options, ionAssetId
    tilesets,           \* the Cesium3DTileset objects constructed so far, in order
    primitives,         \* terria.cesium.scene.primitives, in order
    functionCatalog,    \* a TerriaJsonCatalogFunction and the items of the group it is in
    invocations,        \* the invoke() calls made: placeholder, request, what the reply did
    terriaCalls,        \* the calls of terria.updateFromStartData and terria.addInitSource
    chart,              \* a Chart component: props, _element, _promise, its callbacks
    lineChart,          \* the calls of LineChart.create, update and destroy, in order
    explorer,           \* an ExplorerWindow component: state, subscription, listener
    viewState,          \* the viewState the ExplorerWindow reads and writes
    timers,             \* the setTimeout callbacks that have not run, in the order set
    now,                \* the time in milliseconds
    windowListeners     \* the event listeners on window: type, listener, capture flag

\* The state the share link and the feedback sender work on.
shareVars == <<catalog, items, terriaInitSources, view, pickedFeatures, selectedFeature,
               locationMarker, userProperties, urlShortener, shareDataService,
               build, link, feedbackUrl, feedback>>

\* The state the load of an ArcGisCatalogGroup works on.
arcgisVars == <<group, upstream, requests, loadingPromise, history>>

\* The state a Cesium3DTilesCatalogItem and the scene work on.
tilesVars == <<tilesItem, tilesets, primitives>>

\* The state the invocations of a TerriaJsonCatalogFunction work on.
functionVars == <<functionCatalog, invocations, terriaCalls>>

\* The state of a Chart component, the window's listeners aside.
chartVars == <<chart, lineChart>>

\* The state of an ExplorerWindow component, the window's listeners aside.
explorerVars == <<explorer, viewState, timers, now>>

\* The state of the subsystems besides the share link and the ArcGIS group.
restVars == <<tilesVars, functionVars, chartVars, explorerVars, windowListeners>>

vars == <<catalog, items, terriaInitSources, view, pickedFeatures, selectedFeature,
          locationMarker, userProperties, urlShortener, shareDataService,
          build, link, feedbackUrl, feedback,
          group, upstream, requests, loadingPromise, history,
          tilesItem, tilesets, primitives,
          functionCatalog, invocations, terriaCalls,
          chart, lineChart,
          explorer, viewState, timers, now, windowListeners>>

(***************************************************************************)
(* Small helpers over sequences and records.                               *)
(***************************************************************************)
Range(s) == {s[i] : i \in DOMAIN s}

\* The record obj without the keys outside keep.
Restrict(obj, keep) == [p \in (DOMAIN obj) \cap keep |-> obj[p]]

\* obj.key = undefined: the key no longer carries a value.
DeleteKey(obj, key) == [p \in (DOMAIN obj) \ {key} |-> obj[p]]

\* A truthy boolean property of a JavaScript object (a missing key is falsy).
Truthy(obj, key) == key \in DOMAIN obj /\ obj[key]

(***************************************************************************)
(* The live catalog tree.                                                  *)
(***************************************************************************)
Absent == [present |-> FALSE, parent |-> Root, isGroup |-> FALSE, isOpen |-> FALSE,
           isEnabled |-> FALSE, isUserSupplied |-> FALSE, isLocalData |-> FALSE,
           url |-> FALSE]

Present(cat) == {id \in Ids : cat[id].present}

\* Whether g is a group of the catalog (the root group always is).
IsGroup(cat, g) == IF g = Root THEN TRUE ELSE cat[g].present /\ cat[g].isGroup

\* Whether the group g has a url; the root group has none.
HasUrl(cat, g) == g # Root /\ cat[g].url

RECURSIVE GetParentIds(_, _)
\* Ids of the member g and of its ancestors, nearest first, the root group excluded.
GetParentIds(cat, g) ==
    IF g = Root THEN <<>> ELSE <<g>> \o GetParentIds(cat, cat[g].parent)

Reverse(s) == [i \in 1..Len(s) |-> s[Len(s) + 1 - i]]

\* The parents property of a serialized member: its ancestors' ids, outermost first.
Parents(cat, id) == Reverse(GetParentIds(cat, cat[id].parent))

Ancestors(cat, id) == Range(Parents(cat, id))

(***************************************************************************)
(* Item and property filters.                                              *)
(***************************************************************************)
\* CatalogMember.itemFilters.noLocalData
NoLocalData(cat, id) == ~cat[id].isLocalData

\* CatalogMember.itemFilters.userSuppliedOnly
UserSuppliedOnly(cat, id) == cat[id].isUserSupplied

\* The anonymous filter of addUserAddedCatalog: !item.parent || !item.parent.url
ParentHasNoUrl(cat, id) == ~HasUrl(cat, cat[id].parent)

\* One named item filter applied to a live member.
ItemFilter(name, cat, id) ==
    CASE name = "noLocalData"      -> NoLocalData(cat, id)
      [] name = "noLocalDataRemembering" -> NoLocalData(cat, id)
      [] name = "userSuppliedOnly" -> UserSuppliedOnly(cat, id)
      [] name = "parentHasNoUrl"   -> ParentHasNoUrl(cat, id)

\* combineFilters: the item passes when no filter of the list rejects it.
CombineFilters(filters, cat, id) ==
    \A i \in DOMAIN filters : ItemFilter(filters[i], cat, id)

\* The filters combineFilters calls for an item: it stops at the first that rejects.
FiltersCalled(filters, cat, id) ==
    {i \in DOMAIN filters : \A j \in 1..(i - 1) : ItemFilter(filters[j], cat, id)}

\* CatalogMember.propertyFilters.sharedOnly: the member's propertiesForSharing.
SharedOnly(property, member) ==
    property \in (IF member.isGroup THEN {"isOpen", "items"} ELSE {"isEnabled"})

\* The anonymous property filter of addSharedMembers.
NotName(property) == property # "name"

PropertyFilter(name, property, member) ==
    CASE name = "sharedOnly" -> SharedOnly(property, member)
      [] name = "notName"    -> NotName(property)

(***************************************************************************)
(* CatalogMember.serializeToJson / Catalog.serializeToJson.                *)
(***************************************************************************)
\* Every own property of a live member, before the property filter.
OwnProperties(cat, id, childrenJson) ==
    LET m == cat[id] IN
    IF m.isGroup
    THEN [name |-> id, isUserSupplied |-> m.isUserSupplied, url |-> m.url,
          isOpen |-> m.isOpen, items |-> childrenJson]
    ELSE [name |-> id, isUserSupplied |-> m.isUserSupplied, isLocalData |-> m.isLocalData,
          isEnabled |-> m.isEnabled]

RECURSIVE SerializeMember(_, _, _, _)
RECURSIVE SerializeItems(_, _, _, _)
\* serializeToJson of one member: <<>> (undefined) when the item filter rejects it,
\* else a fresh object with the filtered properties, the type, id and parents.
SerializeMember(cat, its, id, options) ==
    IF ~CombineFilters(options.itemFilter, cat, id) THEN <<>>
    ELSE LET m == cat[id]
             children == IF m.isGroup THEN SerializeItems(cat, its, its[id], options) ELSE <<>>
             own == OwnProperties(cat, id, children)
             kept == {p \in DOMAIN own :
                         \A i \in DOMAIN options.propertyFilter :
                             PropertyFilter(options.propertyFilter[i], p, m)}
         IN  <<Restrict(own, kept) @@
               [type |-> IF m.isGroup THEN "group" ELSE "item",
                id |-> id,
                parents |-> Parents(cat, id)]>>

\* The serialized members of a list of children, the rejected ones left out.
SerializeItems(cat, its, ids, options) ==
    IF ids = <<>> THEN <<>>
    ELSE SerializeMember(cat, its, Head(ids), options)
         \o SerializeItems(cat, its, Tail(ids), options)

\* Catalog.serializeToJson: the serialized children of the root group.
SerializeToJson(cat, its, options) == SerializeItems(cat, its, its[Root], options)

RECURSIVE Visited(_, _, _, _)
\* The members the walk of serializeToJson calls the item filter on.
Visited(cat, its, ids, filters) ==
    IF ids = <<>> THEN <<>>
    ELSE LET id == Head(ids)
         IN  <<id>>
             \o (IF CombineFilters(filters, cat, id) /\ cat[id].isGroup
                 THEN Visited(cat, its, its[id], filters) ELSE <<>>)
             \o Visited(cat, its, Tail(ids), filters)

(***************************************************************************)
(* BuildShareLink: flattenCatalog and addSharedMembers.                    *)
(***************************************************************************)
\* A flattenCatalog that does not descend into the groups.
FlattenCatalogTopLevel(nodes) ==
    [i \in DOMAIN nodes |->
        IF "items" \in DOMAIN nodes[i] THEN DeleteKey(nodes[i], "items") ELSE nodes[i]]

RECURSIVE FlattenCatalog(_)
\* The serialized members of a hierarchy in pre-order, each with items set to undefined.
FlattenCatalog(nodes) ==
    IF nodes = <<>> THEN <<>>
    ELSE LET item == Head(nodes)
         IN  (IF "items" \in DOMAIN item
              THEN <<DeleteKey(item, "items")>> \o FlattenCatalog(item.items)
              ELSE <<item>>)
             \o FlattenCatalog(Tail(nodes))

\* The filter of addSharedMembers: item.isEnabled || item.isOpen
IsEnabledOrOpen(item) == Truthy(item, "isEnabled") \/ Truthy(item, "isOpen")

\* An object used as a mapping: its keys in insertion order and their values.
EmptyObject == [order |-> <<>>, entry |-> <<>>]

\* obj[key] = value
SetKey(obj, key, value) ==
    [order |-> IF key \in Range(obj.order) THEN obj.order ELSE Append(obj.order, key),
     entry |-> [k \in Range(obj.order) \cup {key} |->
                   IF k = key THEN value ELSE obj.entry[k]]]

RECURSIVE ReduceById(_, _)
\* The reduce of addSharedMembers: soFar[item.id] = item; item.id = undefined.
ReduceById(flat, soFar) ==
    IF flat = <<>> THEN soFar
    ELSE ReduceById(Tail(flat), SetKey(soFar, Head(flat).id, DeleteKey(Head(flat), "id")))

\* Object.keys(obj) lists the integer-like keys in ascending order and then the others
\* in insertion order. The ids are strings the model does not fix; for suitable strings
\* every order of the keys is the one Object.keys returns (make all keys but the last of
\* the wanted order integer-like), so the possible results are all the orders of the keys.
ObjectKeys(obj) ==
    LET keys == Range(obj.order)
    IN  {order \in [1..Cardinality(keys) -> keys] : Range(order) = keys}

\* !catalogForSharing[parentId]
Falsy(obj, key) == key \notin DOMAIN obj.entry \/ obj.entry[key] = Undefined

\* A pruning test that looks at the nearest parent only.
IsGroupWithClosedNearestParent(obj, item) ==
    /\ Truthy(item, "isOpen")
    /\ Len(item.parents) > 0
    /\ Falsy(obj, item.parents[Len(item.parents)])

\* A pruning test that forgets item.isOpen.
IsMemberWithClosedParent(obj, item) ==
    \E i \in DOMAIN item.parents : Falsy(obj, item.parents[i])

\* item.isOpen && item.parents.some(parentId => !catalogForSharing[parentId])
IsGroupWithClosedParent(obj, item) ==
    Truthy(item, "isOpen") /\ \E i \in DOMAIN item.parents : Falsy(obj, item.parents[i])

RECURSIVE EliminateOpenGroups(_, _)
\* The forEach over Object.keys(catalogForSharing) that sets pruned entries to undefined.
EliminateOpenGroups(obj, keys) ==
    IF keys = <<>> THEN obj
    ELSE LET key == Head(keys)
             item == obj.entry[key]
         IN  EliminateOpenGroups(
                 IF IsGroupWithClosedParent(obj, item) THEN SetKey(obj, key, Undefined) ELSE obj,
                 Tail(keys))

\* The options of addSharedMembers without the item filter noLocalData.
SharedMembersOptionsNoItemFilter ==
    [itemFilter |-> <<>>, propertyFilter |-> <<"sharedOnly", "notName">>]

SharedMembersOptions ==
    [itemFilter |-> <<"noLocalData">>, propertyFilter |-> <<"sharedOnly", "notName">>]

\* catalogForSharing as it is after the reduce, before the pruning.
CatalogForSharing(cat, its) ==
    LET flat == FlattenCatalog(SerializeToJson(cat, its, SharedMembersOptions))
        kept == SelectSeq(flat, IsEnabledOrOpen)
    IN  ReduceById(kept, EmptyObject)

\* addSharedMembers: the init sources after the call, and its catalogForSharing.
\* keys is the order in which Object.keys lists the keys of catalogForSharing.
AddSharedMembers(cat, its, initSources, keys) ==
    LET catalogForSharing == EliminateOpenGroups(CatalogForSharing(cat, its), keys)
    IN  [initSources |->
             IF Len(catalogForSharing.order) > 0
             THEN Append(initSources, [sharedCatalogMembers |-> catalogForSharing.entry])
             ELSE initSources,
         catalogForSharing |-> catalogForSharing]

(***************************************************************************)
(* BuildShareLink: addUserAddedCatalog and rememberRejections.             *)
(***************************************************************************)
UserAddedOptions ==
    [itemFilter |-> <<"noLocalDataRemembering", "userSuppliedOnly", "parentHasNoUrl">>,
     propertyFilter |-> <<>>]

\* rememberRejections: the items the wrapped filter was called on and rejected, in call order.
RememberRejections(cat, its, filters) ==
    LET visited == Visited(cat, its, its[Root], filters)
        Rejected(id) == \E i \in FiltersCalled(filters, cat, id) :
                            /\ filters[i] = "noLocalDataRemembering"
                            /\ ~ItemFilter(filters[i], cat, id)
    IN  SelectSeq(visited, Rejected)

\* An addUserAddedCatalog that pushes the fragment without testing its length.
AddUserAddedCatalogAlways(cat, its, initSources) ==
    [initSources |-> Append(initSources,
                            [catalog |-> SerializeToJson(cat, its, UserAddedOptions)]),
     rejections |-> RememberRejections(cat, its, UserAddedOptions.itemFilter)]

\* addUserAddedCatalog: the init sources after the call, and the rejections it returns.
AddUserAddedCatalog(cat, its, initSources) ==
    LET userAddedCatalog == SerializeToJson(cat, its, UserAddedOptions)
    IN  [initSources |->
             IF Len(userAddedCatalog) > 0
             THEN Append(initSources, [catalog |-> userAddedCatalog])
             ELSE initSources,
         rejections |-> RememberRejections(cat, its, UserAddedOptions.itemFilter)]

(***************************************************************************)
(* BuildShareLink: view settings, picked features, location marker.        *)
(***************************************************************************)
\* Angles are kept in units of pi/4 radians.
ToDegrees(radians) == radians * 45

RectangleToDegrees(r) ==
    [west |-> ToDegrees(r.west), south |-> ToDegrees(r.south),
     east |-> ToDegrees(r.east), north |-> ToDegrees(r.north)]

\* The switch of addViewSettings over terria.viewerMode.
ViewerModeTag(viewerMode) ==
    CASE viewerMode = "CesiumTerrain"   -> "3d"
      [] viewerMode = "CesiumEllipsoid" -> "3dSmooth"
      [] viewerMode = "Leaflet"         -> "2d"

\* addViewSettings: always pushes one object of view settings.
AddViewSettings(v, initSources) ==
    LET initialCamera ==
            RectangleToDegrees(v.cameraExtent)
            @@ (IF v.viewerMode # "Leaflet"
                THEN [position |-> "positionWC", direction |-> "directionWC", up |-> "upWC"]
                ELSE <<>>)
        homeCamera ==
            RectangleToDegrees(v.homeRectangle)
            @@ [position |-> "homePosition", direction |-> "homeDirection", up |-> "homeUp"]
        terriaSettings ==
            [initialCamera |-> initialCamera, homeCamera |-> homeCamera,
             baseMapName |-> v.baseMapName, viewerMode |-> ViewerModeTag(v.viewerMode),
             currentTime |-> v.currentTime]
            @@ (IF v.showSplitter
                THEN [showSplitter |-> v.showSplitter, splitPosition |-> v.splitPosition]
                ELSE <<>>)
    IN  Append(initSources, terriaSettings)

\* hashEntity: a digest of the entity's visible attributes and the clock time.
HashEntity(entity, clock) == <<"hash", entity.name, entity.properties, clock>>

\* addFeaturePicking without the filter: raster features are listed as entities too.
AddFeaturePickingWithRaster(features, selected, v, initSources) ==
    IF Len(features) > 0
    THEN LET entities == [i \in DOMAIN features |->
                             [name |-> features[i].name,
                              hash |-> HashEntity(features[i], v.currentTime)]]
             picked == [providerCoords |-> "providerCoords",
                        pickCoords |-> [lat |-> ToDegrees(v.pickPosition.latitude),
                                        lng |-> ToDegrees(v.pickPosition.longitude),
                                        height |-> v.pickPosition.height],
                        entities |-> entities]
                       @@ (IF selected # <<>>
                           THEN [current |-> [name |-> selected[1].name,
                                              hash |-> HashEntity(selected[1], v.currentTime)]]
                           ELSE <<>>)
         IN  Append(initSources, [pickedFeatures |-> picked])
    ELSE initSources

\* addFeaturePicking
AddFeaturePicking(features, selected, v, initSources) ==
    IF Len(features) > 0
    THEN LET Vector(feature) == ~feature.imageryLayer
             vectors == SelectSeq(features, Vector)
             entities == [i \in DOMAIN vectors |->
                             [name |-> vectors[i].name,
                              hash |-> HashEntity(vectors[i], v.currentTime)]]
             picked == [providerCoords |-> "providerCoords",
                        pickCoords |-> [lat |-> ToDegrees(v.pickPosition.latitude),
                                        lng |-> ToDegrees(v.pickPosition.longitude),
                                        height |-> v.pickPosition.height],
                        entities |-> entities]
                       @@ (IF selected # <<>>
                           THEN [current |-> [name |-> selected[1].name,
                                              hash |-> HashEntity(selected[1], v.currentTime)]]
                           ELSE <<>>)
         IN  Append(initSources, [pickedFeatures |-> picked])
    ELSE initSources

\* addLocationMarker
AddLocationMarker(marker, initSources) ==
    IF marker # <<>>
    THEN Append(initSources,
                [locationMarker |-> [name |-> marker[1].name,
                                     latitude |-> ToDegrees(marker[1].latitude),
                                     longitude |-> ToDegrees(marker[1].longitude)]])
    ELSE initSources

(***************************************************************************)
(* BuildShareLink: getShareData.                                           *)
(***************************************************************************)
ShareVersion == "0.0.05"

\* Using terria.initSources itself instead of a copy of it.
ArrayNoSlice(array) == [sameArray |-> TRUE, elements |-> array]

\* terria.initSources.slice(): a new array with the same elements.
ArraySlice(array) == [sameArray |-> FALSE, elements |-> array]

\* A getShareData that adds the view settings before the shared members.
GetShareDataViewFirst(cat, its, sources, v, features, selected, marker, keys) ==
    LET initSources == ArraySlice(sources)
        userAdded == AddUserAddedCatalog(cat, its, initSources.elements)
        withView == AddViewSettings(v, userAdded.initSources)
        shared == AddSharedMembers(cat, its, withView, keys)
        withPicking == AddFeaturePicking(features, selected, v, shared.initSources)
        withMarker == AddLocationMarker(marker, withPicking)
    IN  [document |-> [version |-> ShareVersion, initSources |-> withMarker],
         terriaInitSources |-> IF initSources.sameArray THEN withMarker ELSE sources,
         rejections |-> userAdded.rejections,
         catalogForSharing |-> shared.catalogForSharing]

\* getShareData: the document it returns, terria.initSources as the call leaves it,
\* and the intermediate results of the call.
GetShareData(cat, its, sources, v, features, selected, marker, keys) ==
    LET initSources == ArraySlice(sources)
        userAdded == AddUserAddedCatalog(cat, its, initSources.elements)
        shared == AddSharedMembers(cat, its, userAdded.initSources, keys)
        withView == AddViewSettings(v, shared.initSources)
        withPicking == AddFeaturePicking(features, selected, v, withView)
        withMarker == AddLocationMarker(marker, withPicking)
    IN  [document |-> [version |-> ShareVersion, initSources |-> withMarker],
         terriaInitSources |-> IF initSources.sameArray THEN withMarker ELSE sources,
         rejections |-> userAdded.rejections,
         catalogForSharing |-> shared.catalogForSharing]

(***************************************************************************)
(* BuildShareLink: buildShareLink, canShorten, buildShortShareLink.        *)
(***************************************************************************)
UserPropWhiteList == <<"hideExplorerPanel", "activeTabId">>

\* terria.userProperties[key]: <<value>>, or <<>> for undefined.
UserProperty(props, key) == IF key \in DOMAIN props THEN <<props[key]>> ELSE <<>>

\* JSON.stringify of a share document: keys whose value is undefined are left out.
JsonStringify(document) ==
    LET Clean(fragment) ==
            IF "sharedCatalogMembers" \in DOMAIN fragment
            THEN [sharedCatalogMembers |->
                     LET members == fragment.sharedCatalogMembers
                     IN  [k \in {x \in DOMAIN members : members[x] # Undefined} |-> members[k]]]
            ELSE fragment
    IN  [json |-> [version |-> document.version,
                   initSources |-> [i \in DOMAIN document.initSources |->
                                       Clean(document.initSources[i])]]]

\* URI.addSearch(name, value) on the query data of a URI: an undefined value adds nothing,
\* a value the name already has is not repeated when the query is written out.
AddSearch(query, name, value) ==
    IF value = <<>> \/ [name |-> name, value |-> value[1]] \in Range(query) THEN query
    ELSE Append(query, [name |-> name, value |-> value[1]])

RECURSIVE AddUserProperties(_, _, _)
\* userPropWhiteList.forEach(key => uri.addSearch({ key: terria.userProperties[key] })):
\* the object literal has the one property named "key".
AddUserProperties(query, keys, props) ==
    IF keys = <<>> THEN query
    ELSE AddUserProperties(AddSearch(query, "key", UserProperty(props, Head(keys))),
                           Tail(keys), props)

\* buildShareLink: window.location with the fragment start=<JSON>&<parameters>.
BuildShareLink(document, props) ==
    [location |-> "window.location",
     start |-> <<JsonStringify(document)>>,
     share |-> <<>>,
     parameters |-> AddUserProperties(<<>>, UserPropWhiteList, props)]

\* urlFromToken of buildShortShareLink: window.location with the fragment share=<token>.
UrlFromToken(token) ==
    [location |-> "window.location", start |-> <<>>, share |-> <<token>>,
     parameters |-> <<>>]

Defined(service) == service # "undefined"
IsUsable(service) == service = "usable"

\* A canShorten that asks only whether a backend is configured.
CanShortenIfDefined(shortener, service) == Defined(shortener) \/ Defined(service)

\* canShorten
CanShorten(shortener, service) ==
    (Defined(shortener) /\ IsUsable(shortener)) \/ (Defined(service) /\ IsUsable(service))

\* buildShortShareLink: the backend method it calls.
ShortLinkBackend(shortener, service) ==
    IF Defined(service) THEN "shareDataService.getShareToken" ELSE "urlShortener.shorten"

(***************************************************************************)
(* Strings, as sequences of characters, and the String methods and regular *)
(* expressions ArcGisCatalogGroup applies to them.                         *)
(***************************************************************************)
UpperCaseLetters ==
    <<"A", "B", "C", "D", "E", "F", "G", "H", "I", "J", "K", "L", "M",
      "N", "O", "P", "Q", "R", "S", "T", "U", "V", "W", "X", "Y", "Z">>
LowerCaseLetters ==
    <<"a", "b", "c", "d", "e", "f", "g", "h", "i", "j", "k", "l", "m",
      "n", "o", "p", "q", "r", "s", "t", "u", "v", "w", "x", "y", "z">>

\* A character as the i flag of a regular expression compares it.
ToLower(c) ==
    IF \E i \in DOMAIN UpperCaseLetters : UpperCaseLetters[i] = c
    THEN LowerCaseLetters[CHOOSE i \in DOMAIN UpperCaseLetters : UpperCaseLetters[i] = c]
    ELSE c

ToLowerCase(s) == [i \in DOMAIN s |-> ToLower(s[i])]

EndsWith(s, suffix) ==
    /\ Len(suffix) <= Len(s)
    /\ SubSeq(s, Len(s) - Len(suffix) + 1, Len(s)) = suffix

\* The places, counted from 0, where part occurs in s.
Occurrences(s, part) ==
    {i \in 0..(Len(s) - Len(part)) : SubSeq(s, i + 1, i + Len(part)) = part}

\* String.prototype.indexOf: the first place where part occurs, -1 when there is none.
IndexOf(s, part) ==
    IF Occurrences(s, part) = {} THEN -1
    ELSE CHOOSE i \in Occurrences(s, part) : \A j \in Occurrences(s, part) : i <= j

\* String.prototype.substring(start)
Substring(s, start) == SubSeq(s, start + 1, Len(s))

\* replaceUnderscores: every underscore becomes a space.
ReplaceUnderscores(s) == [i \in DOMAIN s |-> IF s[i] = "_" THEN " " ELSE s[i]]

\* The patterns of _load without their i flag.
RegExpTestCaseSensitive(pattern, s) ==
    LET stripped == IF s # <<>> /\ s[Len(s)] = "/" THEN SubSeq(s, 1, Len(s) - 1) ELSE s
    IN  EndsWith(stripped, pattern)

\* /\/MapServer\/?$/i.test(s) and /\/FeatureServer\/?$/i.test(s), for the pattern in
\* lower case: after an optional closing slash, s ends with the pattern, in any case.
RegExpTest(pattern, s) ==
    LET l == ToLowerCase(s)
        stripped == IF l # <<>> /\ l[Len(l)] = "/" THEN SubSeq(l, 1, Len(l) - 1) ELSE l
    IN  EndsWith(stripped, pattern)

MapServerPattern == <<"/", "m", "a", "p", "s", "e", "r", "v", "e", "r">>
FeatureServerPattern ==
    <<"/", "f", "e", "a", "t", "u", "r", "e", "s", "e", "r", "v", "e", "r">>
RestServicesPattern ==
    <<"r", "e", "s", "t", "/", "s", "e", "r", "v", "i", "c", "e", "s", "/">>

\* ArcGisCatalogGroup.prototype._load: the loader the url selects.
LoadProvider(url) ==
    IF RegExpTest(MapServerPattern, url) THEN "loadMapServer"
    ELSE IF RegExpTest(FeatureServerPattern, url) THEN "loadFeatureServer"
    ELSE "loadRest"

\* getBasePath: what follows the first rest/services/ of the url, in any case.
GetBasePath(url) ==
    LET index == IndexOf(ToLowerCase(url), RestServicesPattern)
    IN  IF index >= 0 THEN Substring(url, index + Len(RestServicesPattern)) ELSE <<>>

\* removePathFromName
RemovePathFromName(basePath, name) ==
    IF basePath = <<>> THEN name
    ELSE IF IndexOf(name, basePath) = 0 THEN Substring(name, Len(basePath) + 1)
    ELSE name

\* URI.encode of a path segment: a slash inside the segment is escaped.
RECURSIVE EncodeSegment(_)
EncodeSegment(s) ==
    IF s = <<>> THEN <<>>
    ELSE (IF Head(s) = "/" THEN <<"%", "2", "F">>
          ELSE IF Head(s) = " " THEN <<"%", "2", "0">>
          ELSE <<Head(s)>>) \o EncodeSegment(Tail(s))

\* new URI(url).segment(name).toString(): the segment replaces an empty last segment and
\* is appended after a slash otherwise.
Segment(url, name) ==
    IF url # <<>> /\ url[Len(url)] = "/" THEN url \o EncodeSegment(name)
    ELSE url \o <<"/">> \o EncodeSegment(name)

(***************************************************************************)
(* ArcGisCatalogGroup: loadRest and the children it creates.               *)
(***************************************************************************)
\* An entry of services that is null.
Null == [null |-> TRUE]

ValidServerTypes == <<"MapServer", "FeatureServer">>

\* createGroup: the child made for a folder of the listing. from is the listing's name
\* and the base path the child was named with.
CreateGroup(catalogGroup, basePath, folderJson) ==
    LET localName == RemovePathFromName(basePath, folderJson)
    IN  [type |-> "esri-group",
         name |-> ReplaceUnderscores(localName),
         url |-> Segment(catalogGroup.url, localName),
         dataCustodian |-> catalogGroup.dataCustodian,
         blacklist |-> catalogGroup.blacklist,
         from |-> [basePath |-> basePath, name |-> folderJson]]

\* createMapOrFeatureServer: <<>> for a service of another type, else the child made.
CreateMapOrFeatureServer(catalogGroup, basePath, serviceJson) ==
    IF serviceJson.type \notin Range(ValidServerTypes) THEN <<>>
    ELSE LET localName == RemovePathFromName(basePath, serviceJson.name)
         IN  <<[type |-> IF serviceJson.type = ValidServerTypes[1]
                         THEN "esri-mapServer-group" ELSE "esri-featureServer-group",
                name |-> ReplaceUnderscores(localName),
                url |-> Segment(Segment(catalogGroup.url, localName),
                                <<serviceJson.type>>),
                dataCustodian |-> catalogGroup.dataCustodian,
                blacklist |-> catalogGroup.blacklist,
                from |-> [basePath |-> basePath, name |-> serviceJson.name]]>>

\* The loop over folders: catalogGroup.add of one child per folder.
RECURSIVE CreateGroups(_, _, _, _)
CreateGroups(catalogGroup, basePath, folders, children) ==
    IF folders = <<>> THEN children
    ELSE CreateGroups(catalogGroup, basePath, Tail(folders),
                      Append(children, CreateGroup(catalogGroup, basePath, Head(folders))))

\* The loop over services. Reading the type of a null entry throws a TypeError, which
\* leaves the children added so far in place.
RECURSIVE CreateServers(_, _, _, _)
CreateServers(catalogGroup, basePath, services, children) ==
    IF services = <<>> THEN [items |-> children, thrown |-> <<>>]
    ELSE IF Head(services) = Null THEN [items |-> children, thrown |-> <<"TypeError">>]
    ELSE CreateServers(catalogGroup, basePath, Tail(services),
                       children \o CreateMapOrFeatureServer(catalogGroup, basePath,
                                                            Head(services)))

\* !serviceJson || (!serviceJson.folders && !serviceJson.services)
IsInvalidDocument(serviceJson) ==
    \/ serviceJson = Null
    \/ /\ "folders" \notin DOMAIN serviceJson
       /\ "services" \notin DOMAIN serviceJson

InvalidArcGisServer == "Invalid ArcGIS Server"
GroupIsNotAvailable == "Group is not available"

\* The listing read with the services before the folders.
ThenServicesFirst(catalogGroup, serviceJson) ==
    IF IsInvalidDocument(serviceJson)
    THEN [items |-> catalogGroup.items, thrown |-> <<InvalidArcGisServer>>]
    ELSE LET basePath == GetBasePath(catalogGroup.url)
             servers == CreateServers(catalogGroup, basePath,
                            IF "services" \in DOMAIN serviceJson
                            THEN serviceJson.services ELSE <<>>, catalogGroup.items)
         IN  IF servers.thrown # <<>> THEN servers
             ELSE [items |-> CreateGroups(catalogGroup, basePath,
                                 IF "folders" \in DOMAIN serviceJson
                                 THEN serviceJson.folders ELSE <<>>, servers.items),
                   thrown |-> <<>>]

\* The then callback of loadRest: the items of the group afterwards and what it threw.
Then(catalogGroup, serviceJson) ==
    IF IsInvalidDocument(serviceJson)
    THEN [items |-> catalogGroup.items, thrown |-> <<InvalidArcGisServer>>]
    ELSE LET basePath == GetBasePath(catalogGroup.url)
             withFolders ==
                 IF "folders" \in DOMAIN serviceJson
                 THEN CreateGroups(catalogGroup, basePath, serviceJson.folders,
                                   catalogGroup.items)
                 ELSE catalogGroup.items
         IN  IF "services" \in DOMAIN serviceJson
             THEN CreateServers(catalogGroup, basePath, serviceJson.services, withFolders)
             ELSE [items |-> withFolders, thrown |-> <<>>]

\* The otherwise callback of loadRest: whatever was thrown or rejected before it, it
\* throws the error titled 'Group is not available'.
Otherwise(e) == GroupIsNotAvailable

\* loadRest once loadJson has settled. reply is <<>> when the request failed and
\* <<serviceJson>> when it was answered. Gives the group's items and the error the
\* returned promise rejects with, <<>> when it resolves.
LoadRest(catalogGroup, reply) ==
    LET settled == IF reply = <<>>
                   THEN [items |-> catalogGroup.items, thrown |-> <<"RequestError">>]
                   ELSE Then(catalogGroup, reply[1])
    IN  [items |-> settled.items,
         rejected |-> IF settled.thrown = <<>> THEN <<>>
                      ELSE <<Otherwise(settled.thrown[1])>>]

(***************************************************************************)
(* Initial states.                                                         *)
(***************************************************************************)
EmptyCatalog == [id \in Ids |-> Absent]
NoItems == [g \in {Root} \cup Ids |-> <<>>]

NotBuilt == [done |-> FALSE]
Idle == [pc |-> "idle", sendShareURL |-> FALSE, shareLink |-> <<>>, called |-> {},
         events |-> <<>>, reply |-> <<>>, result |-> <<>>]

TheView ==
    [viewerMode |-> "CesiumTerrain", showSplitter |-> TRUE, splitPosition |-> 1,
     cameraExtent |-> [west |-> -2, south |-> -1, east |-> 2, north |-> 1],
     homeRectangle |-> [west |-> -4, south |-> -2, east |-> 4, north |-> 2],
     baseMapName |-> "Positron", currentTime |-> [dayNumber |-> 2457000, secondsOfDay |-> 0],
     pickPosition |-> [latitude |-> -1, longitude |-> 3, height |-> 0]]

VectorFeature == [name |-> "vector", properties |-> "a", imageryLayer |-> FALSE]
RasterFeature == [name |-> "raster", properties |-> "b", imageryLayer |-> TRUE]
Marker == [name |-> "marker", latitude |-> -1, longitude |-> 3]

\* Init sources the application was started with: an init file and an inline catalog.
StartSources == <<[initUrl |-> "init/terria.json"], [catalog |-> <<>>]>>

\* Either nothing besides the catalog is set, or everything a share link captures is.
AmbientInit ==
    \/ /\ terriaInitSources = <<>>
       /\ pickedFeatures = <<>>
       /\ selectedFeature = <<>>
       /\ locationMarker = <<>>
    \/ /\ terriaInitSources = StartSources
       /\ pickedFeatures = <<RasterFeature, VectorFeature>>
       /\ selectedFeature = <<VectorFeature>>
       /\ locationMarker = <<Marker>>

OutputInit ==
    /\ build = NotBuilt
    /\ link = <<>>
    /\ feedback = Idle

\* new ArcGisCatalogGroup(terria), in its parent's items once it is added to the catalog.
\* loadState, lastLoadInfluencingValues and error are the load bookkeeping of
\* CatalogMember.
NewGroup ==
    [url |-> <<>>, dataCustodian |-> Undefined, blacklist |-> Undefined,
     itemProperties |-> Undefined, items |-> <<>>, isAttached |-> TRUE,
     loadState |-> "NotLoaded", lastLoadInfluencingValues |-> <<>>, error |-> <<>>]

\* No load() call has been made.
NoHistory ==
    [loadCalls |-> 0, providerCalls |-> 0, lastCall |-> "none", outcomes |-> <<>>,
     itemsBefore |-> <<>>, settled |-> <<>>, previous |-> <<>>,
     removedInFlight |-> FALSE]

\* No ArcGIS group is being loaded.
ArcGisIdle ==
    /\ group = NewGroup
    /\ upstream = Null
    /\ requests = <<>>
    /\ loadingPromise = <<>>
    /\ history = NoHistory

\* new Cesium3DTilesCatalogItem(terria): no tileset, and none was ever constructed.
NewTilesItem ==
    [tileset |-> <<>>, isShown |-> FALSE, url |-> "tileset.json", ionAssetId |-> <<>>,
     options |-> <<>>, lastCall |-> "none", wasEnabled |-> FALSE]

\* No 3D tiles item is in use and the scene is empty.
TilesIdle ==
    /\ tilesItem = NewTilesItem
    /\ tilesets = <<>>
    /\ primitives = <<>>

\* A TerriaJsonCatalogFunction in a group of the catalog, between two other members.
FunctionId == "fn"
NewFunctionCatalog ==
    [hasParent |-> TRUE,
     items |-> <<[id |-> <<"above">>], [id |-> <<FunctionId>>], [id |-> <<"below">>]>>]

\* invoke() has not been called.
FunctionIdle ==
    /\ functionCatalog = NewFunctionCatalog
    /\ invocations = <<>>
    /\ terriaCalls = <<>>

\* A Chart before React mounts it. _element is "undefined", "null" or "div"; dataPromise
\* is the promise componentDidMount got from getChartDataPromise ("none", "pending" or
\* "resolved"); promise tells whether this._promise is set; data is chartParameters.data
\* of componentDidMount; onUnmount tells whether the callback of componentWillUnmount
\* waits on the promise; polls counts the loads componentDidUpdate started.
NewChart ==
    [phase |-> "new", props |-> "data", updateCounter |-> 0, element |-> "undefined",
     dataPromise |-> "none", promise |-> FALSE, data |-> "undefined", onUnmount |-> FALSE,
     polls |-> 0, thrown |-> {}, events |-> 0]

\* No chart is mounted.
ChartIdle ==
    /\ chart = NewChart
    /\ lineChart = <<>>

\* An ExplorerWindow before React mounts it: getInitialState.
NewExplorer ==
    [phase |-> "new", state |-> [isMounted |-> FALSE], subscription |-> "none",
     escKeyListener |-> FALSE, lastVisibility |-> <<>>, changes |-> 0]

\* The view state of a desktop session with the explorer panel closed; mobileView names
\* the mobile view shown, "none" when there is none.
NewViewState ==
    [explorerPanelIsVisible |-> FALSE, useSmallScreenInterface |-> FALSE,
     hideMapUi |-> FALSE, explorerPanelAnimating |-> FALSE, mobileView |-> "none"]

\* No ExplorerWindow is mounted and no timer is set.
ExplorerIdle ==
    /\ explorer = NewExplorer
    /\ viewState = NewViewState
    /\ timers = <<>>
    /\ now = 0

\* Nothing besides the share link and the ArcGIS group is in use.
RestIdle ==
    /\ TilesIdle
    /\ FunctionIdle
    /\ ChartIdle
    /\ ExplorerIdle
    /\ windowListeners = {}

\* Nothing of the share link is set: an empty catalog and no build.
ShareIdle ==
    /\ catalog = EmptyCatalog
    /\ items = NoItems
    /\ view = TheView
    /\ terriaInitSources = <<>>
    /\ pickedFeatures = <<>>
    /\ selectedFeature = <<>>
    /\ locationMarker = <<>>
    /\ userProperties = <<>>
    /\ urlShortener = "undefined"
    /\ shareDataService = "undefined"
    /\ feedbackUrl = TRUE
    /\ OutputInit

\* The catalog starts empty and is populated by AddMember.
Init ==
    /\ catalog = EmptyCatalog
    /\ items = NoItems
    /\ view = TheView
    /\ AmbientInit
    /\ userProperties = <<>>
    /\ urlShortener = "undefined"
    /\ shareDataService = "undefined"
    /\ feedbackUrl = TRUE
    /\ OutputInit
    /\ ArcGisIdle
    /\ RestIdle

(***************************************************************************)
(* Operations on the live catalog.                                         *)
(***************************************************************************)
\* A member is added to a group: from the base configuration, by a load, or by the user.
\* Ids are given out in order. flag is the url of a group and the local data of an item;
\* local data is a file the user supplied.
AddMember(id, parent, isGroup, isUserSupplied, flag) ==
    /\ ~catalog[id].present
    /\ flag /\ ~isGroup => isUserSupplied
    /\ \A j \in Ids : j < id => catalog[j].present
    /\ IsGroup(catalog, parent)
    /\ catalog' = [catalog EXCEPT ![id] =
                      [present |-> TRUE, parent |-> parent, isGroup |-> isGroup,
                       isOpen |-> FALSE, isEnabled |-> FALSE,
                       isUserSupplied |-> isUserSupplied,
                       isLocalData |-> ~isGroup /\ flag,
                       url |-> isGroup /\ flag]]
    /\ items' = [items EXCEPT ![parent] = Append(@, id)]
    /\ build' = NotBuilt
    /\ UNCHANGED <<terriaInitSources, view, pickedFeatures, selectedFeature, locationMarker,
                   userProperties, urlShortener, shareDataService, link, feedbackUrl,
                   feedback,
                   arcgisVars, restVars>>

\* The user opens or closes a group.
ToggleOpen(id) ==
    /\ catalog[id].present /\ catalog[id].isGroup
    /\ catalog' = [catalog EXCEPT ![id].isOpen = ~@]
    /\ build' = NotBuilt
    /\ UNCHANGED <<items, terriaInitSources, view, pickedFeatures, selectedFeature,
                   locationMarker, userProperties, urlShortener, shareDataService, link,
                   feedbackUrl, feedback,
                   arcgisVars, restVars>>

\* The user enables or disables an item.
ToggleEnabled(id) ==
    /\ catalog[id].present /\ ~catalog[id].isGroup
    /\ catalog' = [catalog EXCEPT ![id].isEnabled = ~@]
    /\ build' = NotBuilt
    /\ UNCHANGED <<items, terriaInitSources, view, pickedFeatures, selectedFeature,
                   locationMarker, userProperties, urlShortener, shareDataService, link,
                   feedbackUrl, feedback,
                   arcgisVars, restVars>>

(***************************************************************************)
(* Building a share document.                                              *)
(***************************************************************************)
\* getShareData on the live state, Object.keys listing the shared members as keys does.
ShareData(keys) ==
    GetShareData(catalog, items, terriaInitSources, view, pickedFeatures, selectedFeature,
                 locationMarker, keys)

\* One call of getShareData on the live state.
GetShareDataCall ==
    /\ \E keys \in ObjectKeys(CatalogForSharing(catalog, items)) :
           build' = [done |-> TRUE] @@ ShareData(keys)
    /\ terriaInitSources' = build'.terriaInitSources
    /\ UNCHANGED <<catalog, items, view, pickedFeatures, selectedFeature, locationMarker,
                   userProperties, urlShortener, shareDataService, link, feedbackUrl,
                   feedback,
                   arcgisVars, restVars>>

(***************************************************************************)
(* The catalog and the share documents built from it.                      *)
(***************************************************************************)
Next ==
    \/ \E id \in Ids, parent \in {Root} \cup Ids, isGroup, isUserSupplied, flag \in BOOLEAN :
           AddMember(id, parent, isGroup, isUserSupplied, flag)
    \/ \E id \in Ids : ToggleOpen(id)
    \/ \E id \in Ids : ToggleEnabled(id)
    \/ GetShareDataCall

Spec == Init /\ [][Next]_vars

(***************************************************************************)
(* Building share links and sending feedback.                              *)
(***************************************************************************)
\* The names and values terria.userProperties takes in the model; "map" is a user
\* property that is not in userPropWhiteList.
PropertyNames == {"hideExplorerPanel", "activeTabId", "map"}
PropertyValues(name) ==
    CASE name = "hideExplorerPanel" -> {"1"}
      [] name = "activeTabId"       -> {"1", "2"}
      [] name = "map"               -> {"2d"}

\* A catalog with one enabled item of the base configuration.
OneItemCatalog ==
    [id \in Ids |-> IF id = 1 THEN [Absent EXCEPT !.present = TRUE, !.isEnabled = TRUE]
                    ELSE Absent]
OneItemItems == [g \in {Root} \cup Ids |-> IF g = Root THEN <<1>> ELSE <<>>]

\* The catalog is fixed; the short-link backends and the feedback url are configured.
LinkInit ==
    /\ catalog = OneItemCatalog
    /\ items = OneItemItems
    /\ view = TheView
    /\ AmbientInit
    /\ userProperties = <<>>
    /\ urlShortener \in {"undefined", "notUsable", "usable"}
    /\ shareDataService \in {"undefined", "notUsable", "usable"}
    /\ feedbackUrl \in BOOLEAN
    /\ OutputInit
    /\ ArcGisIdle
    /\ RestIdle

\* A user property is set, for instance from a parameter of the page's url.
SetUserProperty(name, value) ==
    /\ name \notin DOMAIN userProperties
    /\ userProperties' = [n \in DOMAIN userProperties \cup {name} |->
                             IF n = name THEN value ELSE userProperties[n]]
    /\ link' = <<>>
    /\ UNCHANGED <<catalog, items, terriaInitSources, view, pickedFeatures, selectedFeature,
                   locationMarker, urlShortener, shareDataService, build, feedbackUrl,
                   feedback,
                   arcgisVars, restVars>>

\* One call of buildShareLink on the live state.
BuildShareLinkCall ==
    /\ \E keys \in ObjectKeys(CatalogForSharing(catalog, items)) :
           /\ link' = <<BuildShareLink(ShareData(keys).document, userProperties)>>
           /\ terriaInitSources' = ShareData(keys).terriaInitSources
    /\ UNCHANGED <<catalog, items, view, pickedFeatures, selectedFeature, locationMarker,
                   userProperties, urlShortener, shareDataService, build, feedbackUrl,
                   feedback,
                   arcgisVars, restVars>>

NotShared == [text |-> "Not shared"]
UnableToSend == "Unable to send feedback"
ThankYou == "Thank you for your feedback!"

\* raiseError of sendFeedback
RaiseError(events) == Append(events, UnableToSend)

\* sendFeedback up to its first asynchronous step. Without a feedbackUrl it raises the
\* error and returns undefined. With sendShareURL it takes buildShortShareLink (a promise)
\* when canShorten, else buildShareLink, whose result is a string: calling then on it
\* throws a TypeError. Without sendShareURL the link is the resolved "Not shared".
SendFeedback(sendShareURL) ==
    /\ feedback.pc = "idle"
    /\ \E keys \in ObjectKeys(CatalogForSharing(catalog, items)) :
         LET r == ShareData(keys) IN
         /\ feedback' =
              IF ~feedbackUrl
              THEN [feedback EXCEPT !.pc = "returned", !.sendShareURL = sendShareURL,
                                    !.events = RaiseError(@)]
              ELSE IF ~sendShareURL
              THEN [feedback EXCEPT !.pc = "posting", !.sendShareURL = sendShareURL,
                                    !.shareLink = <<NotShared>>]
              ELSE IF CanShorten(urlShortener, shareDataService)
              THEN [feedback EXCEPT !.pc = "shortening", !.sendShareURL = sendShareURL,
                                    !.called = {ShortLinkBackend(urlShortener,
                                                                 shareDataService)}]
              ELSE [feedback EXCEPT !.pc = "threw", !.sendShareURL = sendShareURL,
                                    !.shareLink = <<BuildShareLink(r.document,
                                                                   userProperties)>>]
         /\ terriaInitSources' =
              IF feedbackUrl /\ sendShareURL THEN r.terriaInitSources ELSE terriaInitSources
    /\ UNCHANGED <<catalog, items, view, pickedFeatures, selectedFeature, locationMarker,
                   userProperties, urlShortener, shareDataService, build, link, feedbackUrl,
                   arcgisVars, restVars>>

\* The short-link backend answers: with a token, or with a failure that the otherwise
\* handler of sendFeedback turns into the error event and the result false.
ShortLinkSettles(ok) ==
    /\ feedback.pc = "shortening"
    /\ feedback' =
         IF ok
         THEN [feedback EXCEPT !.pc = "posting", !.shareLink = <<UrlFromToken("token")>>]
         ELSE [feedback EXCEPT !.pc = "done", !.events = RaiseError(@),
                               !.result = <<FALSE>>]
    /\ UNCHANGED <<catalog, items, terriaInitSources, view, pickedFeatures, selectedFeature,
                   locationMarker, userProperties, urlShortener, shareDataService, build,
                   link, feedbackUrl,
                   arcgisVars, restVars>>

\* The POST to the feedback url settles: reply is the result of the JSON reply, "none" for
\* a reply without one, "rejected" for a failed request.
PostSettles(reply) ==
    /\ feedback.pc = "posting"
    /\ feedback' =
         IF reply = "SUCCESS"
         THEN [feedback EXCEPT !.pc = "done", !.events = Append(@, ThankYou),
                               !.reply = <<reply>>, !.result = <<TRUE>>]
         ELSE [feedback EXCEPT !.pc = "done", !.events = RaiseError(@),
                               !.reply = <<reply>>, !.result = <<FALSE>>]
    /\ UNCHANGED <<catalog, items, terriaInitSources, view, pickedFeatures, selectedFeature,
                   locationMarker, userProperties, urlShortener, shareDataService, build,
                   link, feedbackUrl,
                   arcgisVars, restVars>>

LinkNext ==
    \/ \E name \in PropertyNames : \E value \in PropertyValues(name) :
           SetUserProperty(name, value)
    \/ BuildShareLinkCall
    \/ \E sendShareURL \in BOOLEAN : SendFeedback(sendShareURL)
    \/ \E ok \in BOOLEAN : ShortLinkSettles(ok)
    \/ \E reply \in {"SUCCESS", "FAILURE", "none", "rejected"} : PostSettles(reply)

LinkSpec == LinkInit /\ [][LinkNext]_vars

(***************************************************************************)
(* Loading an ArcGisCatalogGroup.                                          *)
(***************************************************************************)
\* The urls the group takes: a server's root, folders, a map server, a feature server.
RootUrl == <<"r", "e", "s", "t", "/", "s", "e", "r", "v", "i", "c", "e", "s", "/">>
FolderUrl == <<"r", "e", "s", "t", "/", "s", "e", "r", "v", "i", "c", "e", "s", "/", "a", "b">>
MapServerUrl == <<"r", "e", "s", "t", "/", "s", "e", "r", "v", "i", "c", "e", "s", "/", "a", "b", "/", "M", "a", "p", "S", "e", "r", "v", "e", "r">>
FeatureServerUrl == <<"R", "E", "S", "T", "/", "S", "e", "r", "v", "i", "c", "e", "s", "/", "a", "b", "/", "f", "e", "a", "t", "u", "r", "e", "s", "e", "r", "v", "e", "r", "/">>
\* A folder whose url holds MapServer, but not as its end.
ServerFolderUrl == <<"r", "e", "s", "t", "/", "s", "e", "r", "v", "i", "c", "e", "s", "/", "M", "a", "p", "S", "e", "r", "v", "e", "r", "/", "a", "b">>
Urls == {RootUrl, FolderUrl, ServerFolderUrl, MapServerUrl, FeatureServerUrl}

\* The blacklists the group takes.
Blacklists == {Undefined, [Hidden |-> TRUE]}

\* Documents a server answers with: listings of folders and services, a listing whose
\* services hold a null entry, and documents that are no listing.
FullListing ==
    [folders |-> <<<<"a", "b", "/", "c", "_", "d">>, <<"b">>>>,
     services |-> <<[name |-> <<"a", "b", "/", "e">>, type |-> "MapServer"],
                    [name |-> <<"x">>, type |-> "GPServer"],
                    [name |-> <<"a", "b", "/", "f", "_", "g">>, type |-> "FeatureServer"]>>]
FoldersListing == [folders |-> <<<<"a", "b", "c", "d">>>>]
ServicesListing ==
    [services |-> <<[name |-> <<"b">>, type |-> "FeatureServer"],
                    [name |-> <<"a", "b">>, type |-> "MapServer"]>>]
BrokenListing == [folders |-> <<<<"b">>>>, services |-> <<Null>>]
EmptyListing == [folders |-> <<>>, services |-> <<>>]
ErrorDocument == [error |-> "Invalid URL"]
Listings == {FullListing, FoldersListing, ServicesListing, BrokenListing, EmptyListing,
             ErrorDocument, Null}

\* The group is in the catalog with a url; the server holds one of the documents.
LoadInit ==
    /\ catalog = EmptyCatalog
    /\ items = NoItems
    /\ view = TheView
    /\ terriaInitSources = <<>>
    /\ pickedFeatures = <<>>
    /\ selectedFeature = <<>>
    /\ locationMarker = <<>>
    /\ userProperties = <<>>
    /\ urlShortener = "undefined"
    /\ shareDataService = "undefined"
    /\ feedbackUrl = TRUE
    /\ OutputInit
    /\ \E url \in Urls : group = [NewGroup EXCEPT !.url = url]
    /\ upstream \in Listings
    /\ requests = <<>>
    /\ loadingPromise = <<>>
    /\ history = NoHistory
    /\ RestIdle

\* _getValuesThatInfluenceLoad
GetValuesThatInfluenceLoad(catalogGroup) == <<catalogGroup.url, catalogGroup.blacklist>>

\* The values that influence the load, the url alone.
UrlChanged(catalogGroup) ==
    \/ catalogGroup.lastLoadInfluencingValues = <<>>
    \/ catalogGroup.lastLoadInfluencingValues[1] # catalogGroup.url

\* Whether a value that influences the load differs from what the last load used.
LoadInfluencingValuesChanged(catalogGroup) ==
    catalogGroup.lastLoadInfluencingValues # GetValuesThatInfluenceLoad(catalogGroup)

\* A load() that never finds a load in flight.
NeverInFlight(catalogGroup, promise) == FALSE

\* Whether load() finds a load in flight, whose promise it returns.
InFlight(catalogGroup, promise) == catalogGroup.loadState = "Loading" /\ promise # <<>>

\* The url or the blacklist of the group is set.
SetUrl(url) ==
    /\ url # group.url
    /\ group' = [group EXCEPT !.url = url]
    /\ UNCHANGED <<shareVars, restVars, upstream, requests, loadingPromise, history>>

SetBlacklist(blacklist) ==
    /\ blacklist # group.blacklist
    /\ group' = [group EXCEPT !.blacklist = blacklist]
    /\ UNCHANGED <<shareVars, restVars, upstream, requests, loadingPromise, history>>

\* The group is removed from its parent's items, possibly while its load is in flight.
RemoveFromParent ==
    /\ group.isAttached
    /\ group' = [group EXCEPT !.isAttached = FALSE]
    /\ history' = [history EXCEPT !.removedInFlight = (group.loadState = "Loading")]
    /\ UNCHANGED <<shareVars, restVars, upstream, requests, loadingPromise>>

\* load(): a caller joins the load in flight; or the group is loaded and no value that
\* influences the load has changed, and nothing is done; or the load starts: the values
\* are recorded and _load calls the loader the url selects.
Load ==
    /\ history.loadCalls < MaxLoads
    /\ IF InFlight(group, loadingPromise)
       THEN /\ loadingPromise' = <<[callers |-> loadingPromise[1].callers + 1]>>
            /\ history' = [history EXCEPT !.loadCalls = @ + 1, !.lastCall = "joined"]
            /\ UNCHANGED <<group, requests>>
       ELSE IF group.loadState = "Loaded" /\ ~LoadInfluencingValuesChanged(group)
       THEN /\ history' = [history EXCEPT !.loadCalls = @ + 1, !.lastCall = "cached"]
            /\ UNCHANGED <<group, requests, loadingPromise>>
       ELSE /\ group' = [group EXCEPT
                            !.loadState = "Loading",
                            !.lastLoadInfluencingValues = GetValuesThatInfluenceLoad(group),
                            !.error = <<>>]
            /\ requests' = Append(requests, [loader |-> LoadProvider(group.url),
                                             url |-> group.url])
            /\ loadingPromise' = <<[callers |-> 1]>>
            /\ history' = [history EXCEPT !.loadCalls = @ + 1,
                                          !.providerCalls = @ + 1,
                                          !.lastCall = "started",
                                          !.itemsBefore = group.items]
    /\ UNCHANGED <<shareVars, restVars, upstream>>

\* The promise of _load has settled with the group's items as given: load() marks the
\* group loaded, or failed with the error attached, and every caller of the load gets
\* the outcome.
Settle(request, reply, children, rejected) ==
    /\ group' = [group EXCEPT
                    !.items = children,
                    !.loadState = IF rejected = <<>> THEN "Loaded" ELSE "Failed",
                    !.error = rejected]
    /\ requests' = Tail(requests)
    /\ loadingPromise' = <<>>
    /\ history' =
         [history EXCEPT
            !.outcomes = [i \in 1..(IF loadingPromise = <<>> THEN 0
                                    ELSE loadingPromise[1].callers) |-> rejected],
            !.settled = <<[loader |-> request.loader, reply |-> reply]>>,
            !.previous = IF request.loader = "loadRest" /\ rejected = <<>>
                         THEN <<[url |-> group.url, items |-> children]>>
                         ELSE @]
    /\ UNCHANGED <<shareVars, restVars, upstream>>

\* The request of loadRest settles: it fails, or it is answered with the server's
\* document.
RestSettles(answered) ==
    /\ requests # <<>>
    /\ Head(requests).loader = "loadRest"
    /\ LET reply == IF answered THEN <<upstream>> ELSE <<>>
           r == LoadRest(group, reply)
       IN  Settle(Head(requests), IF answered THEN "answered" ELSE "failed",
                  r.items, r.rejected)

\* The promise of loadMapServer or loadFeatureServer settles; the children these loaders
\* create are not part of the model.
ServerSettles(ok) ==
    /\ requests # <<>>
    /\ Head(requests).loader # "loadRest"
    /\ Settle(Head(requests), IF ok THEN "answered" ELSE "failed", group.items,
              IF ok THEN <<>> ELSE <<"Service is not available">>)

LoadNext ==
    \/ \E url \in Urls : SetUrl(url)
    \/ \E blacklist \in Blacklists : SetBlacklist(blacklist)
    \/ RemoveFromParent
    \/ Load
    \/ \E answered \in BOOLEAN : RestSettles(answered)
    \/ \E ok \in BOOLEAN : ServerSettles(ok)

LoadSpec == LoadInit /\ [][LoadNext]_vars

(***************************************************************************)
(* Properties of the share document.                                       *)
(***************************************************************************)
\* The fragments the last build captured: the document's init sources after the copy of
\* terria.initSources.
Captured ==
    SubSeq(build.document.initSources, Len(terriaInitSources) + 1,
           Len(build.document.initSources))

\* The position of a fragment in the fixed order, 0 for any other object.
FragmentKind(fragment) ==
    CASE "catalog" \in DOMAIN fragment              -> 1
      [] "sharedCatalogMembers" \in DOMAIN fragment -> 2
      [] "initialCamera" \in DOMAIN fragment        -> 3
      [] "pickedFeatures" \in DOMAIN fragment       -> 4
      [] "locationMarker" \in DOMAIN fragment       -> 5
      [] OTHER                                      -> 0

CapturedKinds == [i \in DOMAIN Captured |-> FragmentKind(Captured[i])]

\* The entries of the sharedCatalogMembers mapping of the last build, and those kept.
SharedEntries == build.catalogForSharing.entry
Kept(id) == id \in DOMAIN SharedEntries /\ SharedEntries[id] # Undefined

\* Members a, b, c form a chain: a is a top-level group holding b, and b holds c.
Chain(a, b, c) ==
    /\ catalog[a].present /\ catalog[b].present /\ catalog[c].present
    /\ catalog[a].parent = Root /\ catalog[b].parent = a /\ catalog[c].parent = b

\* C1: after a build, every kept entry of sharedCatalogMembers that is open has all its
\* ancestors kept; and for an open group a holding a closed group b holding an open
\* member c, a is kept, b is absent and c is omitted (undefined), in whatever order
\* Object.keys lists the keys.
C1_AncestorPruning ==
    build.done =>
        /\ \A id \in Ids :
               Kept(id) /\ Truthy(SharedEntries[id], "isOpen")
                   => \A anc \in Ancestors(catalog, id) : Kept(anc)
        /\ \A a, b, c \in Ids :
               Chain(a, b, c) /\ catalog[a].isOpen /\ ~catalog[b].isOpen /\ catalog[c].isOpen
                   => /\ Kept(a)
                      /\ b \notin DOMAIN SharedEntries
                      /\ c \in DOMAIN SharedEntries /\ SharedEntries[c] = Undefined

\* A build over an open group holding a closed group holding an open member.
C1_Witness ==
    /\ build.done
    /\ \E a, b, c \in Ids :
           /\ Chain(a, b, c) /\ catalog[a].isOpen /\ ~catalog[b].isOpen /\ catalog[c].isOpen
           /\ Kept(a) /\ ~Kept(c)

\* C2: the document has version '0.0.05' and the fragments a build captured come in the
\* fixed order catalog, sharedCatalogMembers, view settings, pickedFeatures,
\* locationMarker, each at most once, the view settings exactly once, pickedFeatures
\* and locationMarker exactly when there are picked features or a location marker.
C2_FragmentOrder ==
    build.done =>
        /\ build.document.version = "0.0.05"
        /\ \A i \in DOMAIN CapturedKinds : CapturedKinds[i] \in 1..5
        /\ \A i, j \in DOMAIN CapturedKinds : i < j => CapturedKinds[i] < CapturedKinds[j]
        /\ Cardinality({i \in DOMAIN CapturedKinds : CapturedKinds[i] = 3}) = 1
        /\ (4 \in Range(CapturedKinds)) = (pickedFeatures # <<>>)
        /\ (5 \in Range(CapturedKinds)) = (locationMarker # <<>>)

\* A build that captured all five kinds of fragment.
C2_Witness ==
    /\ build.done
    /\ CapturedKinds = <<1, 2, 3, 4, 5>>

\* C3: a build leaves the catalog tree and terria.initSources as they were, and a build
\* that follows a build with no change in between returns an equal document.
C3_BuildIsPure ==
    [][build'.done =>
          /\ catalog' = catalog
          /\ items' = items
          /\ terriaInitSources' = terriaInitSources
          /\ (build.done => build'.document = build.document)]_vars

\* A build over a catalog with members, started with init sources.
C3_Witness ==
    /\ build.done
    /\ terriaInitSources # <<>>
    /\ Present(catalog) = Ids
    /\ \E id \in Ids : Kept(id)

\* C4: after a build, an item that is not user-supplied, is enabled and not open is kept
\* under its id even when some of its ancestor groups are closed and absent from the
\* mapping; and when no member is user-supplied the build captures no catalog fragment.
C4_EnabledItemUnderClosedGroup ==
    build.done =>
        /\ \A id \in Ids :
               /\ catalog[id].present /\ ~catalog[id].isGroup
               /\ ~catalog[id].isUserSupplied /\ catalog[id].isEnabled
               => /\ Kept(id)
                  /\ Truthy(SharedEntries[id], "isEnabled")
        /\ (\A id \in Present(catalog) : ~catalog[id].isUserSupplied)
               => 1 \notin Range(CapturedKinds)

\* A build over a closed group of the base configuration holding an enabled item.
C4_Witness ==
    /\ build.done
    /\ \A id \in Present(catalog) : ~catalog[id].isUserSupplied
    /\ \E g, i \in Ids :
           /\ catalog[g].present /\ catalog[g].isGroup /\ ~catalog[g].isOpen
           /\ catalog[i].present /\ catalog[i].parent = g /\ catalog[i].isEnabled
           /\ g \notin DOMAIN SharedEntries
           /\ Kept(i)

\* The members serializeToJson reaches with the filter noLocalData: those that are not
\* local data and have no local-data ancestor.
Serialized(id) ==
    /\ catalog[id].present
    /\ \A m \in Ancestors(catalog, id) \cup {id} : ~catalog[m].isLocalData

\* What sharedCatalogMembers holds for a member: the shared properties, type and parents.
SharedValue(id) ==
    IF catalog[id].isGroup
    THEN [isOpen |-> catalog[id].isOpen, type |-> "group", parents |-> Parents(catalog, id)]
    ELSE [isEnabled |-> catalog[id].isEnabled, type |-> "item",
          parents |-> Parents(catalog, id)]

EnabledOrOpen == {id \in Ids : Serialized(id) /\ (catalog[id].isEnabled \/ catalog[id].isOpen)}

C6_NoUserSuppliedEntry ==
    build.done => \A id \in DOMAIN SharedEntries : ~catalog[id].isUserSupplied

\* C6 as amended: sharedCatalogMembers holds no local-data member, and a user-supplied
\* member that is enabled or open and is not local data is an entry of it, as a member
\* of the base configuration is.
C6_NoLocalDataEntry ==
    build.done =>
        /\ \A id \in DOMAIN SharedEntries : ~catalog[id].isLocalData
        /\ \A id \in Ids :
               /\ catalog[id].present /\ catalog[id].isUserSupplied
               /\ ~catalog[id].isLocalData
               /\ catalog[id].isEnabled \/ catalog[id].isOpen
               => id \in DOMAIN SharedEntries

\* A build over an enabled user-supplied item and an enabled local-data item.
C6_Witness ==
    /\ build.done
    /\ \E u, l \in Ids :
           /\ catalog[u].present /\ catalog[u].isUserSupplied /\ catalog[u].isEnabled
           /\ Kept(u)
           /\ catalog[l].present /\ catalog[l].isLocalData /\ catalog[l].isEnabled
           /\ l \notin DOMAIN SharedEntries

\* The filter chain of addUserAddedCatalog on a live member.
PassesUserAdded(id) ==
    /\ catalog[id].isUserSupplied
    /\ ~catalog[id].isLocalData
    /\ ~HasUrl(catalog, catalog[id].parent)

\* The members the walk of addUserAddedCatalog applies its filters to.
ReachedUserAdded(id) ==
    catalog[id].present /\ \A anc \in Ancestors(catalog, id) : PassesUserAdded(anc)

\* The ids of the members in the catalog fragments of the last build, at any depth.
UserAddedIds ==
    UNION {{node.id : node \in Range(FlattenCatalog(Captured[i].catalog))} :
               i \in {j \in DOMAIN Captured : CapturedKinds[j] = 1}}

\* C7: a member is in the catalog fragment only if it is user-supplied, is not local data
\* and has no parent with a url; the fragment is pushed exactly when some member the walk
\* applies the filters to passes them; the members the local-data filter rejected are
\* those in the rejections list, and none of them is in the fragment.
C7_UserAddedCatalog ==
    build.done =>
        /\ \A id \in UserAddedIds : catalog[id].present /\ PassesUserAdded(id)
        /\ (1 \in Range(CapturedKinds))
               = (\E id \in Ids : ReachedUserAdded(id) /\ PassesUserAdded(id))
        /\ Range(build.rejections)
               = {id \in Ids : ReachedUserAdded(id) /\ catalog[id].isLocalData}
        /\ Range(build.rejections) \cap UserAddedIds = {}

\* A build that pushed a catalog fragment, rejected a local-data item and left out a
\* user-supplied member whose parent has a url.
C7_Witness ==
    /\ build.done
    /\ UserAddedIds # {}
    /\ build.rejections # <<>>
    /\ \E id \in Ids :
           /\ catalog[id].present /\ catalog[id].isUserSupplied
           /\ HasUrl(catalog, catalog[id].parent)
           /\ id \notin UserAddedIds

(***************************************************************************)
(* Properties of the share link and of the link sendFeedback chooses.      *)
(***************************************************************************)
WhiteListed == Range(UserPropWhiteList)

\* The full link of the live state: the fragment start=<the complete JSON document>.
IsFullLink(uri) ==
    /\ uri.share = <<>>
    /\ \A keys \in ObjectKeys(CatalogForSharing(catalog, items)) :
           uri.start = <<JsonStringify(ShareData(keys).document)>>

\* C8: the link buildShareLink returns carries start=<JSON document> and, for each
\* whitelisted user property that is set, a parameter with that name and the property's
\* value; no parameter has another name.
C8_WhiteListedParameters ==
    link # <<>> =>
        /\ IsFullLink(link[1])
        /\ \A name \in WhiteListed \cap DOMAIN userProperties :
               [name |-> name, value |-> userProperties[name]] \in Range(link[1].parameters)
        /\ \A i \in DOMAIN link[1].parameters : link[1].parameters[i].name \in WhiteListed

\* C9: when sendFeedback is to send the share link and no short-link backend reports
\* isUsable, the link it takes is the full link with the complete JSON document, not a
\* share=<token> link, and it calls neither shorten nor getShareToken.
C9_FullLinkWhenNotUsable ==
    /\ feedback.pc # "idle" /\ feedbackUrl /\ feedback.sendShareURL
    /\ ~IsUsable(urlShortener) /\ ~IsUsable(shareDataService)
    => /\ feedback.called = {}
       /\ feedback.shareLink # <<>>
       /\ IsFullLink(feedback.shareLink[1])

\* sendFeedback took the full link although a short-link backend is configured.
C9_Witness ==
    /\ feedback.pc # "idle" /\ feedbackUrl /\ feedback.sendShareURL
    /\ shareDataService = "notUsable"
    /\ feedback.shareLink # <<>>
    /\ feedback.shareLink[1].start # <<>>

\* C10: the backend buildShortShareLink calls is one whose isUsable is true.
C10_CalledBackendIsUsable ==
    /\ "shareDataService.getShareToken" \in feedback.called => IsUsable(shareDataService)
    /\ "urlShortener.shorten" \in feedback.called => IsUsable(urlShortener)

\* C15: a call of sendFeedback with a feedbackUrl configured never throws; once it has
\* settled, either the server replied 'SUCCESS', the promise resolved to true and the one
\* event raised is the thank-you, or the promise resolved to false and the one event
\* raised is 'Unable to send feedback'.
C15_FeedbackFailureIsNonFatal ==
    feedback.pc # "idle" /\ feedbackUrl =>
        /\ feedback.pc # "threw"
        /\ feedback.pc = "done" =>
               \/ /\ feedback.reply = <<"SUCCESS">>
                  /\ feedback.result = <<TRUE>>
                  /\ feedback.events = <<ThankYou>>
               \/ /\ feedback.reply # <<"SUCCESS">>
                  /\ feedback.result = <<FALSE>>
                  /\ feedback.events = <<UnableToSend>>

(***************************************************************************)
(* Properties of the load of an ArcGisCatalogGroup.                        *)
(***************************************************************************)
\* C11: load() is single-flight. While the group is Loading exactly one provider call is
\* in flight, however many load() calls were made; a load() call that found the group
\* Loading made no provider call of its own; and every caller of one load gets the same
\* outcome.
C11_SingleFlight ==
    /\ Len(requests) <= 1
    /\ (group.loadState = "Loading") = (Len(requests) = 1)
    /\ (loadingPromise # <<>>) = (requests # <<>>)
    /\ history.lastCall = "joined" => history.providerCalls < history.loadCalls
    /\ history.lastCall = "joined" /\ group.loadState # "Loading"
           => Len(history.outcomes) >= 2
    /\ \A i, j \in DOMAIN history.outcomes : history.outcomes[i] = history.outcomes[j]

\* Two load() calls were made on the NotLoaded group before the load settled; it has
\* settled, with one provider call made and both callers given its outcome.
C11_Witness ==
    /\ history.loadCalls = 2
    /\ history.providerCalls = 1
    /\ history.lastCall = "joined"
    /\ Len(history.outcomes) = 2
    /\ group.loadState \in {"Loaded", "Failed"}

\* C12: a load() call on the Loaded group runs the provider again when the url or the
\* blacklist differs from the value the last load used, and otherwise changes nothing
\* and makes no provider call.
C12_ReloadWhenValuesChanged ==
    [][group.loadState = "Loaded" /\ history'.loadCalls = history.loadCalls + 1 =>
           IF \/ group.url # group.lastLoadInfluencingValues[1]
              \/ group.blacklist # group.lastLoadInfluencingValues[2]
           THEN /\ group'.loadState = "Loading"
                /\ Len(requests') = Len(requests) + 1
                /\ history'.providerCalls = history.providerCalls + 1
           ELSE /\ group' = group
                /\ requests' = requests
                /\ history'.providerCalls = history.providerCalls]_vars

\* The group was loaded, its url or blacklist was changed, and load() has started the
\* second provider call.
C12_Witness ==
    /\ history.providerCalls = 2
    /\ history.lastCall = "started"
    /\ history.outcomes = <<<<>>>>
    /\ group.loadState = "Loading"

\* The generic REST load has settled with a failure.
RestLoadFailed ==
    /\ group.loadState = "Failed"
    /\ history.settled # <<>>
    /\ history.settled[1].loader = "loadRest"

\* C13: whenever the promise of loadRest rejects (the request failed, the document has
\* neither folders nor services, or an entry failed while the children were created)
\* the group's items are what they were when the load started.
C13_FailedLoadKeepsItems ==
    RestLoadFailed => group.items = history.itemsBefore

\* C14: when the group was removed from its parent while its load was in flight, the
\* completion of that load leaves the items of the detached group as they are.
C14_DetachedGroupKeepsItems ==
    [][history.removedInFlight /\ ~group.isAttached /\ group.loadState = "Loading"
           => group'.items = group.items]_vars

\* The generic REST load has settled with success.
RestLoaded ==
    /\ group.loadState = "Loaded"
    /\ history.settled # <<>>
    /\ history.settled[1].loader = "loadRest"

\* The children the last load added to the group.
Created == SubSeq(group.items, Len(history.itemsBefore) + 1, Len(group.items))

ListedFolders == IF "folders" \in DOMAIN upstream THEN upstream.folders ELSE <<>>
ListedServers ==
    IF "services" \in DOMAIN upstream
    THEN SelectSeq(upstream.services, LAMBDA s : s.type \in {"MapServer", "FeatureServer"})
    ELSE <<>>

\* C16: after a successful generic REST load the items of the group are the items from
\* before the load followed by one ArcGisCatalogGroup per folder, in the order of the
\* folders list, and then one map or feature server group per service of type MapServer
\* or FeatureServer, in the order of the services list; no other child is created.
C16_ListingOrder ==
    RestLoaded =>
        /\ SubSeq(group.items, 1, Len(history.itemsBefore)) = history.itemsBefore
        /\ Len(Created) = Len(ListedFolders) + Len(ListedServers)
        /\ \A i \in DOMAIN ListedFolders :
               /\ Created[i].type = "esri-group"
               /\ Created[i].from.name = ListedFolders[i]
        /\ \A j \in DOMAIN ListedServers :
               /\ Created[Len(ListedFolders) + j].from.name = ListedServers[j].name
               /\ Created[Len(ListedFolders) + j].type =
                      IF ListedServers[j].type = "MapServer"
                      THEN "esri-mapServer-group" ELSE "esri-featureServer-group"

\* A listing of two folders and three services, one of them of another type, was loaded.
C16_Witness ==
    /\ RestLoaded
    /\ upstream = FullListing
    /\ Len(Created) = 4
    /\ Created[3].type = "esri-mapServer-group"

\* C17: when the generic REST load succeeds a second time on the group, with the url and
\* the server's document as they were at the first load and the items as that load left
\* them, the items afterwards equal the items after the first load.
C17_RepeatedLoadIsIdentical ==
    [][/\ group.loadState = "Loading"
       /\ requests # <<>> /\ Head(requests).loader = "loadRest"
       /\ history.previous # <<>>
       /\ history.previous[1].url = group.url
       /\ history.previous[1].items = group.items
       /\ group'.loadState = "Loaded"
       => group'.items = history.previous[1].items]_vars

\* Whether name starts with the base path as a whole path prefix: it is the base path or
\* continues it after a slash.
HasPathPrefix(basePath, name) ==
    \/ name = basePath
    \/ /\ Len(name) > Len(basePath)
       /\ SubSeq(name, 1, Len(basePath) + 1) = basePath \o <<"/">>

\* The local name the naming rule gives the child listed as name under the base path.
LocalNameByRule(basePath, name) ==
    IF basePath # <<>> /\ HasPathPrefix(basePath, name)
    THEN SubSeq(name, Len(basePath) + 2, Len(name))
    ELSE name

\* C18: every child created by the generic REST load is named by the rule: its local
\* name is the listed name without the parent's base path and the slash after it when
\* the listed name starts with the base path as a whole path prefix, and the listed name
\* otherwise; its display name is the local name with a space for every underscore.
C18_ChildNaming ==
    \A i \in DOMAIN group.items :
        LET child == group.items[i]
            localName == LocalNameByRule(child.from.basePath, child.from.name)
        IN  /\ Len(child.name) = Len(localName)
            /\ \A k \in DOMAIN localName :
                   child.name[k] = IF localName[k] = "_" THEN " " ELSE localName[k]

\* Whether the url ends with the word, in any letter case, or with the word and a slash.
EndsWithServer(url, word) ==
    \E k \in 0..Len(url) :
        ToLowerCase(SubSeq(url, k + 1, Len(url))) \in {word, word \o <<"/">>}

\* The loader the dispatch rule gives the url.
LoaderByRule(url) ==
    IF EndsWithServer(url, MapServerPattern) THEN "loadMapServer"
    ELSE IF EndsWithServer(url, FeatureServerPattern) THEN "loadFeatureServer"
    ELSE "loadRest"

\* C19: a load() that starts a load calls exactly one loader, the one the rule gives the
\* group's url (the MapServer loader for a url ending with /MapServer, the FeatureServer
\* loader for one ending with /FeatureServer, in any letter case and with an optional
\* closing slash, the generic REST loader for any other url), and when the loader is
\* called the url, blacklist, items and attachment of the group are as they were.
C19_LoaderByUrl ==
    [][history'.providerCalls = history.providerCalls + 1 =>
           /\ Len(requests') = Len(requests) + 1
           /\ requests'[Len(requests')].loader = LoaderByRule(group.url)
           /\ group'.url = group.url
           /\ group'.blacklist = group.blacklist
           /\ group'.items = group.items
           /\ group'.isAttached = group.isAttached]_vars

\* Each of the three loaders has been chosen: the FeatureServer loader for a url in
\* another letter case with a closing slash is in flight after a generic REST load.
C19_Witness ==
    /\ requests # <<>>
    /\ Head(requests).loader = "loadFeatureServer"
    /\ Head(requests).url = FeatureServerUrl
    /\ history.settled # <<>>
    /\ history.settled[1].loader = "loadRest"

\* The server's document is no ArcGIS REST listing: it has no folders and no services.
NotAListing ==
    \/ upstream = Null
    \/ DOMAIN upstream \cap {"folders", "services"} = {}

\* C20: the error a failed generic REST load surfaces tells the failure kinds apart: it
\* is titled 'Invalid ArcGIS Server' when the request was answered with a document that
\* is no listing, and 'Group is not available' when the request itself failed.
C20_ErrorKinds ==
    RestLoadFailed =>
        /\ history.settled[1].reply = "answered" /\ NotAListing
               => group.error = <<"Invalid ArcGIS Server">>
        /\ history.settled[1].reply = "failed"
               => group.error = <<"Group is not available">>

(***************************************************************************)
(* Further properties of the share document.                               *)
(***************************************************************************)
\* The sharedCatalogMembers fragments the last build captured.
SharedFragments ==
    {i \in DOMAIN Captured : "sharedCatalogMembers" \in DOMAIN Captured[i]}

\* C26: a build captures a sharedCatalogMembers fragment only when an entry survives the
\* ancestor pruning, and no key of a captured fragment has the value undefined.
C26_SharedMembersNotEmpty ==
    build.done =>
        \A i \in SharedFragments :
            LET members == Captured[i].sharedCatalogMembers
            IN  /\ \E id \in DOMAIN members : members[id] # Undefined
                /\ \A id \in DOMAIN members : members[id] # Undefined

\* C27: the initSources of the document a build returns start with terria.initSources
\* as they were before the build, in their order, followed by the fragments of this
\* build; a build that follows a build of the unchanged state returns as many fragments.
C27_AppendsToCopy ==
    [][build'.done =>
          /\ Len(build'.document.initSources) > Len(terriaInitSources)
          /\ SubSeq(build'.document.initSources, 1, Len(terriaInitSources))
                 = terriaInitSources
          /\ \A i \in (Len(terriaInitSources) + 1)..Len(build'.document.initSources) :
                 FragmentKind(build'.document.initSources[i]) \in 1..5
          /\ (build.done =>
                 Len(build'.document.initSources) = Len(build.document.initSources))]_vars

\* A build of a state that was started with init sources and has shared members.
C27_Witness ==
    /\ build.done
    /\ terriaInitSources = StartSources
    /\ Len(build.document.initSources) > Len(StartSources) + 1
    /\ SharedFragments # {}

(***************************************************************************)
(* Cesium3DTilesCatalogItem: the tileset of the item in the Cesium scene.  *)
(***************************************************************************)
\* Tilesets the item constructs in one run.
MaxTilesets == 3

\* A primitive in the scene that belongs to another catalog item. The tilesets the item
\* constructs are named by their position in tilesets, 1 and up.
OtherPrimitive == 0

\* The item's options for the tileset, when the configuration gives some.
TilesetOptions == [show |-> FALSE, maximumScreenSpaceError |-> 2]

\* combine(object1, object2): the properties of both; one that both have is object1's.
Combine(object1, object2) == object1 @@ object2

\* primitives.contains(primitive)
Contains(collection, primitive) == \E i \in DOMAIN collection : collection[i] = primitive

\* new Cesium3DTileset(options) for the options _enableInCesium puts together.
NewTileset(item) ==
    LET resource == IF item.ionAssetId # <<>>
                    THEN <<"IonResource", item.ionAssetId[1]>>
                    ELSE <<"proxyCatalogItemUrl", item.url>>
        options == [show |-> item.isShown, url |-> resource]
        combined == IF item.options # <<>> THEN Combine(options, item.options[1]) ELSE options
    IN  [options |-> combined, show |-> combined.show, isDestroyed |-> FALSE]

\* The item is configured, the scene may hold a primitive of another item.
TilesInit ==
    /\ ShareIdle
    /\ ArcGisIdle
    /\ \E shown \in BOOLEAN, asset \in {<<>>, <<"asset">>}, options \in {<<>>, <<TilesetOptions>>} :
          tilesItem = [NewTilesItem EXCEPT !.isShown = shown, !.ionAssetId = asset,
                                           !.options = options]
    /\ tilesets = <<>>
    /\ primitives \in {<<>>, <<OtherPrimitive>>}
    /\ FunctionIdle
    /\ ChartIdle
    /\ ExplorerIdle
    /\ windowListeners = {}

\* The bookkeeping of a call: which method ran, and whether _tileset was defined before.
Called(item, method) == [item EXCEPT !.lastCall = method, !.wasEnabled = tilesItem.tileset # <<>>]

\* _showInCesium
ShowInCesium ==
    /\ tilesItem' = Called(tilesItem, "_showInCesium")
    /\ tilesets' = IF tilesItem.tileset # <<>>
                   THEN [tilesets EXCEPT ![tilesItem.tileset[1]].show = TRUE]
                   ELSE tilesets
    /\ UNCHANGED <<shareVars, arcgisVars, primitives, functionVars, chartVars, explorerVars,
                   windowListeners>>

\* _hideInCesium
HideInCesium ==
    /\ tilesItem' = Called(tilesItem, "_hideInCesium")
    /\ tilesets' = IF tilesItem.tileset # <<>>
                   THEN [tilesets EXCEPT ![tilesItem.tileset[1]].show = FALSE]
                   ELSE tilesets
    /\ UNCHANGED <<shareVars, arcgisVars, primitives, functionVars, chartVars, explorerVars,
                   windowListeners>>

\* _enableInCesium without the test of _tileset: a tileset is constructed on every call.
EnableInCesiumAlways ==
    /\ Len(tilesets) < MaxTilesets
    /\ tilesets' = Append(tilesets, NewTileset(tilesItem))
    /\ tilesItem' = Called([tilesItem EXCEPT !.tileset = <<Len(tilesets) + 1>>], "_enableInCesium")
    /\ primitives' = Append(primitives, Len(tilesets) + 1)
    /\ UNCHANGED <<shareVars, arcgisVars, functionVars, chartVars, explorerVars,
                   windowListeners>>

\* _enableInCesium
EnableInCesium ==
    /\ tilesItem.tileset = <<>> => Len(tilesets) < MaxTilesets
    /\ LET created == IF tilesItem.tileset = <<>>
                      THEN Append(tilesets, NewTileset(tilesItem))
                      ELSE tilesets
           tileset == IF tilesItem.tileset = <<>> THEN Len(created) ELSE tilesItem.tileset[1]
       IN  /\ tilesets' = created
           /\ tilesItem' = Called([tilesItem EXCEPT !.tileset = <<tileset>>], "_enableInCesium")
           /\ primitives' = IF ~Contains(primitives, tileset)
                            THEN Append(primitives, tileset)
                            ELSE primitives
    /\ UNCHANGED <<shareVars, arcgisVars, functionVars, chartVars, explorerVars,
                   windowListeners>>

\* primitives.removeAndDestroy(primitive)
RemoveAndDestroy(collection, primitive) == SelectSeq(collection, LAMBDA held : held # primitive)

\* _disableInCesium
DisableInCesium ==
    /\ tilesItem' = Called([tilesItem EXCEPT !.tileset = <<>>], "_disableInCesium")
    /\ IF tilesItem.tileset # <<>>
       THEN /\ primitives' = RemoveAndDestroy(primitives, tilesItem.tileset[1])
            /\ tilesets' = [tilesets EXCEPT ![tilesItem.tileset[1]].isDestroyed = TRUE]
       ELSE UNCHANGED <<primitives, tilesets>>
    /\ UNCHANGED <<shareVars, arcgisVars, functionVars, chartVars, explorerVars,
                   windowListeners>>

TilesNext ==
    \/ ShowInCesium
    \/ HideInCesium
    \/ EnableInCesium
    \/ DisableInCesium

TilesSpec == TilesInit /\ [][TilesNext]_vars

\* The tilesets of the item that the scene holds, as positions in primitives.
HeldTilesets == {i \in DOMAIN primitives : primitives[i] # OtherPrimitive}

\* What the scene holds of the item: nothing, or the tileset that _tileset names.
SceneHoldsTheTileset ==
    /\ Cardinality(HeldTilesets) <= 1
    /\ (tilesItem.tileset # <<>>) <=> (HeldTilesets # {})
    /\ \A i \in HeldTilesets : /\ tilesItem.tileset = <<primitives[i]>>
                               /\ ~tilesets[primitives[i]].isDestroyed

\* C21: the scene holds at most one tileset of the item, and holds one exactly when
\* _tileset is defined, which is then that tileset and is not destroyed; a call of
\* _enableInCesium on an enabled item constructs no tileset and leaves the scene as
\* it is, and a call of _disableInCesium on a disabled item leaves tilesets and scene
\* as they are.
C21_OneTilesetInScene ==
    /\ []SceneHoldsTheTileset
    /\ [][/\ (tilesItem'.lastCall = "_enableInCesium" /\ tilesItem.tileset # <<>>)
             => UNCHANGED <<tilesets, primitives>> /\ tilesItem'.tileset = tilesItem.tileset
          /\ (tilesItem'.lastCall = "_disableInCesium" /\ tilesItem.tileset = <<>>)
             => UNCHANGED <<tilesets, primitives>> /\ tilesItem'.tileset = <<>>]_vars

\* An enabled item was enabled again, after a disable and a second enable, in a scene
\* that holds another item's primitive.
C21_Witness ==
    /\ tilesItem.lastCall = "_enableInCesium"
    /\ tilesItem.wasEnabled
    /\ tilesItem.tileset = <<2>>
    /\ primitives = <<OtherPrimitive, 2>>
    /\ tilesets[1].isDestroyed

(***************************************************************************)
(* Picked features in the share document.                                  *)
(***************************************************************************)
\* Features in terria.pickedFeatures.features at most.
MaxPicked == 3

OtherVectorFeature == [name |-> "other", properties |-> "c", imageryLayer |-> FALSE]

\* What a pick returns: features of imagery layers and vector features.
Features == {RasterFeature, VectorFeature, OtherVectorFeature}

\* One enabled item in the catalog, nothing picked or selected.
PickInit ==
    /\ catalog = OneItemCatalog
    /\ items = OneItemItems
    /\ view = TheView
    /\ terriaInitSources = <<>>
    /\ pickedFeatures = <<>>
    /\ selectedFeature = <<>>
    /\ locationMarker \in {<<>>, <<Marker>>}
    /\ userProperties = <<>>
    /\ urlShortener = "undefined"
    /\ shareDataService = "undefined"
    /\ feedbackUrl = TRUE
    /\ OutputInit
    /\ ArcGisIdle
    /\ RestIdle

\* A pick adds a feature to terria.pickedFeatures.features.
PickFeature(feature) ==
    /\ Len(pickedFeatures) < MaxPicked
    /\ pickedFeatures' = Append(pickedFeatures, feature)
    /\ build' = NotBuilt
    /\ UNCHANGED <<catalog, items, terriaInitSources, view, selectedFeature, locationMarker,
                   userProperties, urlShortener, shareDataService, link, feedbackUrl,
                   feedback, arcgisVars, restVars>>

\* terria.selectedFeature is set to a feature, or to undefined.
SelectFeature(selected) ==
    /\ selectedFeature # selected
    /\ selectedFeature' = selected
    /\ build' = NotBuilt
    /\ UNCHANGED <<catalog, items, terriaInitSources, view, pickedFeatures, locationMarker,
                   userProperties, urlShortener, shareDataService, link, feedbackUrl,
                   feedback, arcgisVars, restVars>>

PickNext ==
    \/ \E feature \in Features : PickFeature(feature)
    \/ \E selected \in {<<>>} \cup {<<feature>> : feature \in Features} : SelectFeature(selected)
    \/ GetShareDataCall

PickSpec == PickInit /\ [][PickNext]_vars

\* The pickedFeatures fragments of the last build.
PickedFragments ==
    {Captured[i].pickedFeatures : i \in {j \in DOMAIN Captured : FragmentKind(Captured[j]) = 4}}

\* The features of a list that are not of an imagery layer, in the order of the list.
RECURSIVE VectorFeatures(_)
VectorFeatures(features) ==
    IF features = <<>>
    THEN <<>>
    ELSE IF Head(features).imageryLayer
         THEN VectorFeatures(Tail(features))
         ELSE <<Head(features)>> \o VectorFeatures(Tail(features))

\* C24: a build emits a pickedFeatures fragment exactly when the picked list is not
\* empty; its entities are one {name, hash} per picked feature that has no imagery
\* layer, in the order of the picked list; and it has the key current exactly when a
\* feature is selected.
C24_PickedFeaturesFragment ==
    build.done =>
        /\ (PickedFragments # {}) <=> (pickedFeatures # <<>>)
        /\ \A fragment \in PickedFragments :
              LET vectors == VectorFeatures(pickedFeatures)
              IN  /\ Len(fragment.entities) = Len(vectors)
                  /\ \A i \in DOMAIN vectors :
                        fragment.entities[i] =
                            [name |-> vectors[i].name,
                             hash |-> HashEntity(vectors[i], view.currentTime)]
                  /\ ("current" \in DOMAIN fragment) <=> (selectedFeature # <<>>)

\* A build with a raster feature between two vector features picked, and one selected.
C24_Witness ==
    /\ build.done
    /\ pickedFeatures = <<VectorFeature, RasterFeature, OtherVectorFeature>>
    /\ selectedFeature = <<OtherVectorFeature>>
    /\ PickedFragments # {}

(***************************************************************************)
(* ExplorerWindow: slide in and out, the Escape key, mount and unmount.    *)
(***************************************************************************)
SLIDE_DURATION == 300

\* The time passes in steps of TimeStep; the view state is written until MaxTime, and
\* MaxChanges times at most.
TimeStep == SLIDE_DURATION \div 3
MaxTime == 600
MaxChanges == 3

\* e.keyCode of the Escape key.
EscapeKey == 27

\* The component, the view state and the timers: what the component's methods work on.
World == [explorer |-> explorer, viewState |-> viewState, timers |-> timers]

\* this.setState(partial): the keys of partial replace those of the state. React drops
\* the update of a component that is unmounted.
SetState(component, partial) ==
    IF component.phase = "unmounted"
    THEN component
    ELSE [component EXCEPT !.state = partial @@ @]

\* setTimeout(callback, delay)
SetTimeout(pending, callback, delay) ==
    Append(pending, [callback |-> callback, due |-> now + delay])

\* window.addEventListener(type, listener, capture)
AddEventListener(listeners, type, listener, capture) ==
    listeners \cup {[type |-> type, listener |-> listener, capture |-> capture]}

\* window.removeEventListener(type, listener, capture): removes the listener registered
\* with this type, this function and this capture flag.
RemoveEventListener(listeners, type, listener, capture) ==
    listeners \ {[type |-> type, listener |-> listener, capture |-> capture]}

\* slideIn
SlideIn(w) ==
    [explorer |-> SetState(w.explorer, [visible |-> TRUE]),
     viewState |-> [w.viewState EXCEPT !.explorerPanelAnimating = TRUE],
     timers |-> SetTimeout(w.timers, "slideIn", 0)]

\* slideOut
SlideOut(w) ==
    [w EXCEPT !.explorer = SetState(@, [slidIn |-> FALSE]),
              !.timers = SetTimeout(@, "slideOut", SLIDE_DURATION)]

\* onVisibilityChange; lastVisibility records the argument.
OnVisibilityChange(w, isVisible) ==
    LET noted == [w EXCEPT !.explorer.lastVisibility = <<isVisible>>]
    IN  IF isVisible THEN SlideIn(noted) ELSE SlideOut(noted)

\* isVisible
IsVisible(vs) ==
    ~vs.useSmallScreenInterface /\ ~vs.hideMapUi /\ vs.explorerPanelIsVisible

\* A property of the view state is written. The subscription to
\* ko.pureComputed(this.isVisible) calls onVisibilityChange when the computed value
\* changes, until it is disposed.
Write(w, property, value) ==
    LET written == [w EXCEPT !.viewState = [@ EXCEPT ![property] = value]]
        isVisible == IsVisible(written.viewState)
    IN  IF w.explorer.subscription = "active" /\ isVisible # IsVisible(w.viewState)
        THEN OnVisibilityChange(written, isVisible)
        ELSE written

\* close
Close(w) ==
    LET closed == Write(w, "explorerPanelIsVisible", FALSE)
    IN  [closed EXCEPT !.viewState.mobileView = "nowViewing"]

\* UNSAFE_componentWillMount
ComponentWillMount(w) ==
    LET subscribed == [w EXCEPT !.viewState.explorerPanelAnimating = TRUE,
                                !.explorer.subscription = "active"]
    IN  OnVisibilityChange(subscribed, IsVisible(subscribed.viewState))

\* The desktop or the small-screen interface, the panel open or closed.
ExplorerInit ==
    /\ ShareIdle
    /\ ArcGisIdle
    /\ TilesIdle
    /\ FunctionIdle
    /\ ChartIdle
    /\ explorer = NewExplorer
    /\ \E isVisible, small \in BOOLEAN :
          viewState = [NewViewState EXCEPT !.explorerPanelIsVisible = isVisible,
                                           !.useSmallScreenInterface = small]
    /\ timers = <<>>
    /\ now = 0
    /\ windowListeners = {}

\* React mounts the component: UNSAFE_componentWillMount, render, componentDidMount.
Mount ==
    /\ explorer.phase = "new"
    /\ LET w == ComponentWillMount([World EXCEPT !.explorer.phase = "mounted"])
       IN  /\ explorer' = [w.explorer EXCEPT !.escKeyListener = TRUE]
           /\ viewState' = w.viewState
           /\ timers' = w.timers
    /\ windowListeners' = AddEventListener(windowListeners, "keydown", "escKeyListener", TRUE)
    /\ UNCHANGED <<shareVars, arcgisVars, tilesVars, functionVars, chartVars, now>>

\* React unmounts the component: componentWillUnmount.
Unmount ==
    /\ explorer.phase = "mounted"
    /\ windowListeners' =
           RemoveEventListener(windowListeners, "keydown", "escKeyListener", FALSE)
    /\ explorer' = [explorer EXCEPT !.phase = "unmounted", !.subscription = "disposed"]
    /\ UNCHANGED <<shareVars, arcgisVars, tilesVars, functionVars, chartVars, viewState,
                   timers, now>>

\* The application writes a property of the view state that isVisible reads; what it
\* wrote before the component was mounted is in the initial state.
SetViewState(property, value) ==
    /\ explorer.phase # "new"
    /\ explorer.changes < MaxChanges
    /\ now <= MaxTime
    /\ viewState[property] # value
    /\ LET w == Write(World, property, value)
       IN  /\ explorer' = [w.explorer EXCEPT !.changes = @ + 1]
           /\ viewState' = w.viewState
           /\ timers' = w.timers
    /\ UNCHANGED <<shareVars, arcgisVars, tilesVars, functionVars, chartVars, now,
                   windowListeners>>

\* A key is pressed: the keydown listeners on window run.
KeyDown(keyCode) ==
    /\ \E l \in windowListeners : l.type = "keydown" /\ l.listener = "escKeyListener"
    /\ LET w == IF keyCode = EscapeKey THEN Close(World) ELSE World
       IN  /\ explorer' = w.explorer
           /\ viewState' = w.viewState
           /\ timers' = w.timers
    /\ UNCHANGED <<shareVars, arcgisVars, tilesVars, functionVars, chartVars, now,
                   windowListeners>>

\* The overlay or the Done button that render put on the page is clicked.
ClickClose ==
    /\ explorer.phase = "mounted"
    /\ "visible" \in DOMAIN explorer.state /\ explorer.state.visible
    /\ LET w == Close(World)
       IN  /\ explorer' = w.explorer
           /\ viewState' = w.viewState
           /\ timers' = w.timers
    /\ UNCHANGED <<shareVars, arcgisVars, tilesVars, functionVars, chartVars, now,
                   windowListeners>>

\* The timers that are due, the one to run first: the earliest due, then the earliest set.
IsNextTimer(i) ==
    /\ timers[i].due <= now
    /\ \A j \in DOMAIN timers :
          \/ timers[j].due > timers[i].due
          \/ timers[j].due = timers[i].due /\ j >= i

Without(sequence, i) == SubSeq(sequence, 1, i - 1) \o SubSeq(sequence, i + 1, Len(sequence))

\* A timer runs its callback: of slideIn (which sets the timer that ends the animation),
\* of slideOut, or the end of the animation.
TimerFires(i) ==
    /\ IsNextTimer(i)
    /\ LET callback == timers[i].callback
           rest == Without(timers, i)
       IN  /\ explorer' = CASE callback = "slideIn" -> SetState(explorer, [slidIn |-> TRUE])
                            [] callback = "slideOut" -> SetState(explorer, [visible |-> FALSE])
                            [] OTHER -> explorer
           /\ timers' = IF callback = "slideIn"
                        THEN SetTimeout(rest, "animationEnd", SLIDE_DURATION)
                        ELSE rest
           /\ viewState' = IF callback = "animationEnd"
                           THEN [viewState EXCEPT !.explorerPanelAnimating = FALSE]
                           ELSE viewState
    /\ UNCHANGED <<shareVars, arcgisVars, tilesVars, functionVars, chartVars, now,
                   windowListeners>>

\* Time passes, once the timers that are due have run. The time counts from the mount.
Tick ==
    /\ explorer.phase # "new"
    /\ \A i \in DOMAIN timers : timers[i].due > now
    /\ now < MaxTime \/ timers # <<>>
    /\ now' = now + TimeStep
    /\ UNCHANGED <<shareVars, arcgisVars, tilesVars, functionVars, chartVars, explorer,
                   viewState, timers, windowListeners>>

ExplorerNext ==
    \/ Mount
    \/ Unmount
    \/ \E property \in {"explorerPanelIsVisible", "useSmallScreenInterface", "hideMapUi"},
          value \in BOOLEAN : SetViewState(property, value)
    \/ \E keyCode \in {EscapeKey, EscapeKey + 1} : KeyDown(keyCode)
    \/ ClickClose
    \/ \E i \in DOMAIN timers : TimerFires(i)
    \/ Tick

ExplorerSpec == ExplorerInit /\ [][ExplorerNext]_vars

\* C28: once all timers have fired, state.visible is the last visibility passed to
\* onVisibilityChange and state.slidIn equals state.visible.
C28_SlideStateSettles ==
    (explorer.phase = "mounted" /\ timers = <<>>) =>
        /\ "visible" \in DOMAIN explorer.state
        /\ "slidIn" \in DOMAIN explorer.state
        /\ explorer.state.visible = explorer.lastVisibility[1]
        /\ explorer.state.slidIn = explorer.state.visible

\* C29: after componentWillUnmount no keydown listener of the component is on window
\* and the subscription is disposed.
C29_ListenerAndSubscriptionReleased ==
    explorer.phase = "unmounted" =>
        /\ ~\E l \in windowListeners : l.type = "keydown" /\ l.listener = "escKeyListener"
        /\ explorer.subscription = "disposed"

(***************************************************************************)
(* Chart: the chart, its resize listener, mount and unmount.               *)
(***************************************************************************)
\* Resize events and updates of the component in one run.
MaxEvents == 3

\* The component, the listeners on window and the calls of LineChart.
ChartWorld == [chart |-> chart, windowListeners |-> windowListeners, lineChart |-> lineChart]

\* getChartParameters().data: defined when props.data or props.tableStructure is.
ChartParametersData(component) == IF component.props = "data" THEN "defined" ELSE "undefined"

\* LineChart.create, LineChart.update, LineChart.destroy: the call and its element.
LineChartCall(calls, call, element) == Append(calls, [call |-> call, element |-> element])

\* componentDidMount, the two callbacks on the data promise: the first sets
\* chartParameters.data and creates the chart, the second adds the resize listener and
\* resolves this._promise with it.
DataLoaded(w) ==
    [w EXCEPT !.chart.data = "defined",
              !.chart.dataPromise = "resolved",
              !.lineChart = LineChartCall(@, "create", w.chart.element),
              !.windowListeners = AddEventListener(@, "resize", "resize", FALSE)]

\* componentWillUnmount, the callback on this._promise, without the removal of the
\* listener.
WillUnmountCallbackKeepsListener(w) ==
    [w EXCEPT !.lineChart = LineChartCall(@, "destroy", w.chart.element),
              !.chart.element = "undefined",
              !.chart.onUnmount = FALSE]

\* componentWillUnmount, the callback on this._promise.
WillUnmountCallback(w) ==
    [w EXCEPT !.windowListeners = RemoveEventListener(@, "resize", "resize", FALSE),
              !.lineChart = LineChartCall(@, "destroy", w.chart.element),
              !.chart.element = "undefined",
              !.chart.onUnmount = FALSE]

\* componentDidMount. A promise that is resolved runs a callback as it is registered.
ComponentDidMount(w) ==
    CASE w.chart.props = "none" ->
             [w EXCEPT !.chart.thrown = @ \cup {"TypeError"}]
      [] w.chart.props = "data" ->
             DataLoaded([w EXCEPT !.chart.promise = TRUE])
      [] OTHER ->
             [w EXCEPT !.chart.dataPromise = "pending", !.chart.promise = TRUE]

\* componentWillUnmount
ComponentWillUnmount(w) ==
    IF ~w.chart.promise
    THEN [w EXCEPT !.chart.thrown = @ \cup {"TypeError"}]
    ELSE LET registered == [w EXCEPT !.chart.onUnmount = TRUE, !.chart.promise = FALSE]
         IN  IF w.chart.dataPromise = "resolved"
             THEN WillUnmountCallback(registered)
             ELSE registered

\* The props give the data, or a url to load it from, or neither.
ChartInit ==
    /\ ShareIdle
    /\ ArcGisIdle
    /\ TilesIdle
    /\ FunctionIdle
    /\ ExplorerIdle
    /\ \E props \in {"data", "url", "none"}, updateCounter \in {0, 1} :
          chart = [NewChart EXCEPT !.props = props, !.updateCounter = updateCounter]
    /\ lineChart = <<>>
    /\ windowListeners = {}

\* React mounts the component: render sets _element through the ref, then
\* componentDidMount runs.
ChartMount ==
    /\ chart.phase = "new"
    /\ LET w == ComponentDidMount([ChartWorld EXCEPT !.chart.phase = "mounted",
                                                     !.chart.element = "div"])
       IN  /\ chart' = w.chart
           /\ windowListeners' = w.windowListeners
           /\ lineChart' = w.lineChart
    /\ UNCHANGED <<shareVars, arcgisVars, tilesVars, functionVars, explorerVars>>

\* The load of the data from the url completes; a failed load gives an empty chart. The
\* callbacks on the promise run in the order they were registered.
LoadCompletes ==
    /\ chart.dataPromise = "pending"
    /\ LET loaded == DataLoaded(ChartWorld)
           w == IF chart.onUnmount THEN WillUnmountCallback(loaded) ELSE loaded
       IN  /\ chart' = w.chart
           /\ windowListeners' = w.windowListeners
           /\ lineChart' = w.lineChart
    /\ UNCHANGED <<shareVars, arcgisVars, tilesVars, functionVars, explorerVars>>

\* The window is resized: the resize listeners on window run.
Resize ==
    /\ chart.events < MaxEvents
    /\ \E l \in windowListeners : l.type = "resize" /\ l.listener = "resize"
    /\ IF chart.element = "div"
       THEN /\ lineChart' = IF chart.data = "defined"
                            THEN LineChartCall(lineChart, "update", chart.element)
                            ELSE lineChart
            /\ chart' = [chart EXCEPT !.events = @ + 1]
       ELSE /\ chart' = [chart EXCEPT !.events = @ + 1,
                                      !.thrown = @ \cup {"DeveloperError"}]
            /\ UNCHANGED lineChart
    /\ UNCHANGED <<shareVars, arcgisVars, tilesVars, functionVars, explorerVars,
                   windowListeners>>

\* React renders the component again: componentDidUpdate.
ComponentDidUpdate ==
    /\ chart.phase = "mounted"
    /\ chart.events < MaxEvents
    /\ IF ChartParametersData(chart) = "defined"
       THEN /\ lineChart' = LineChartCall(lineChart, "update", chart.element)
            /\ chart' = [chart EXCEPT !.events = @ + 1]
       ELSE /\ chart' = IF chart.updateCounter > 0
                        THEN IF chart.props = "url"
                             THEN [chart EXCEPT !.events = @ + 1, !.polls = @ + 1]
                             ELSE [chart EXCEPT !.events = @ + 1,
                                                !.thrown = @ \cup {"TypeError"}]
                        ELSE [chart EXCEPT !.events = @ + 1]
            /\ UNCHANGED lineChart
    /\ UNCHANGED <<shareVars, arcgisVars, tilesVars, functionVars, explorerVars,
                   windowListeners>>

\* A load that componentDidUpdate started completes and updates the chart in the
\* element the component had then.
PollCompletes ==
    /\ chart.polls > 0
    /\ chart' = [chart EXCEPT !.polls = @ - 1]
    /\ lineChart' = LineChartCall(lineChart, "update", "div")
    /\ UNCHANGED <<shareVars, arcgisVars, tilesVars, functionVars, explorerVars,
                   windowListeners>>

\* React unmounts the component: componentWillUnmount, then the ref is called with null.
ChartUnmount ==
    /\ chart.phase = "mounted"
    /\ LET w == ComponentWillUnmount(ChartWorld)
       IN  /\ chart' = [w.chart EXCEPT !.phase = "unmounted", !.element = "null"]
           /\ windowListeners' = w.windowListeners
           /\ lineChart' = w.lineChart
    /\ UNCHANGED <<shareVars, arcgisVars, tilesVars, functionVars, explorerVars>>

ChartNext ==
    \/ ChartMount
    \/ LoadCompletes
    \/ Resize
    \/ ComponentDidUpdate
    \/ PollCompletes
    \/ ChartUnmount

ChartSpec == ChartInit /\ [][ChartNext]_vars

ResizeListenerOnWindow ==
    \E l \in windowListeners : l.type = "resize" /\ l.listener = "resize"

\* C25: the resize listener is on window only while the chart's DOM element is set, so
\* that it never throws 'Missing chart DOM element'; once the component is unmounted the
\* listener is not on window, whenever the load completes; and every call of
\* LineChart.destroy comes after a call of LineChart.create.
C25_ResizeListenerLifecycle ==
    /\ "DeveloperError" \notin chart.thrown
    /\ ResizeListenerOnWindow => chart.element = "div"
    /\ chart.phase = "unmounted" => ~ResizeListenerOnWindow
    /\ \A i \in DOMAIN lineChart :
          lineChart[i].call = "destroy" =>
              \E j \in 1..(i - 1) : lineChart[j].call = "create"

\* The component was unmounted while its data was loading, the load completed, and the
\* listener it added is gone.
C25_Witness ==
    /\ chart.phase = "unmounted"
    /\ chart.props = "url"
    /\ chart.dataPromise = "resolved"
    /\ lineChart = <<[call |-> "create", element |-> "null"],
                     [call |-> "destroy", element |-> "null"]>>
    /\ ~ResizeListenerOnWindow

(***************************************************************************)
(* TerriaJsonCatalogFunction: invoke, the placeholder and the results.     *)
(***************************************************************************)
\* Calls of invoke() in one run.
MaxInvocations == 3

FunctionName == "fn"

\* Catalog members as a service returns them: one that says nothing about itself, and
\* one with a name, a description and isEnabled of its own. Names and descriptions are
\* sequences of words.
BareMember == [type |-> "csv"]
OwnMember ==
    [type |-> "csv", name |-> <<"own">>, description |-> <<"own", "description">>,
     isEnabled |-> FALSE]

\* The JSON documents a service answers with: share data (which has a catalog as well),
\* an init source, an array of members, and a single member.
ShareDataJson ==
    [isArray |-> FALSE,
     value |-> [version |-> "0.0.05", initSources |-> <<[catalog |-> <<BareMember>>]>>,
                catalog |-> <<BareMember>>]]
InitSourceJson == [isArray |-> FALSE, value |-> [catalog |-> <<BareMember, OwnMember>>]]
MembersJson == [isArray |-> TRUE, value |-> <<BareMember, OwnMember>>]
SingleMemberJson == [isArray |-> FALSE, value |-> BareMember]
OwnMemberJson == [isArray |-> FALSE, value |-> OwnMember]

\* The replies are named by their position in this list.
Responses == <<ShareDataJson, InitSourceJson, MembersJson, SingleMemberJson, OwnMemberJson>>

\* json.version && json.initSources
IsShareData(json) ==
    ~json.isArray /\ "version" \in DOMAIN json.value /\ "initSources" \in DOMAIN json.value

\* Array.isArray(json.catalog)
HasCatalogArray(json) == ~json.isArray /\ "catalog" \in DOMAIN json.value

\* The case of the reply with the test for a catalog made first.
InvokeCaseCatalogFirst(json) ==
    IF HasCatalogArray(json) THEN "addInitSource"
    ELSE IF IsShareData(json) THEN "updateFromStartData"
    ELSE "updateItems"

\* The case of the reply, as the callback decides it.
InvokeCase(json) ==
    IF IsShareData(json) THEN "updateFromStartData"
    ELSE IF HasCatalogArray(json) THEN "addInitSource"
    ELSE "updateItems"

\* The name and the description of the placeholder of the n-th call: the function's
\* name and the time of the call.
AsyncResultName(n) == <<FunctionName, n>>
AsyncResultDescription(n) == <<"result", "of", FunctionName, n>>

\* new ResultPendingCatalogItem with the name and description invoke gives it.
NewAsyncResult(n, overlaps) ==
    [name |-> AsyncResultName(n), description |-> AsyncResultDescription(n),
     isEnabled |-> FALSE, state |-> "pending", handledBy |-> "none", reply |-> <<>>,
     members |-> <<>>, enabledWhenAdded |-> FALSE, overlaps |-> overlaps]

\* items.forEach(...): a member is enabled unless it defines isEnabled, and gets the
\* placeholder's name and description unless it has its own.
WithDefaults(item, asyncResult) ==
    [isEnabled |-> IF "isEnabled" \in DOMAIN item THEN item.isEnabled ELSE TRUE,
     name |-> IF "name" \in DOMAIN item THEN item.name ELSE asyncResult.name,
     description |-> IF "description" \in DOMAIN item
                     THEN item.description
                     ELSE asyncResult.description]
    @@ item

\* Array.isArray(json) ? json : [json], with the defaults applied.
ReturnedMembers(json, asyncResult) ==
    LET listed == IF json.isArray THEN json.value ELSE <<json.value>>
    IN  [k \in DOMAIN listed |-> WithDefaults(listed[k], asyncResult)]

\* this.uniqueId + '-results'
ResultsGroupId(uniqueId) == <<uniqueId, "-results">>

\* terria.catalog.shareKeyIndex[id] for the group the results go to: the position of the
\* member with this id among the items, <<>> when there is none.
ShareKeyIndex(members, id) ==
    LET found == {k \in DOMAIN members : members[k].id = id}
    IN  IF found = {} THEN <<>> ELSE <<CHOOSE k \in found : \A other \in found : k <= other>>

\* parent.items.indexOf(this), -1 when the function is not among them.
IndexOfFunction(members) ==
    LET found == ShareKeyIndex(members, <<FunctionId>>)
    IN  IF found = <<>> THEN -1 ELSE found[1] - 1

\* The index the results group is spliced in at, without the increment.
ResultsGroupIndexAtFunction(members) ==
    LET index == IndexOfFunction(members)
    IN  IF index >= 0 THEN index ELSE Len(members)

\* The index the results group is spliced in at.
ResultsGroupIndex(members) ==
    LET index == IndexOfFunction(members)
    IN  IF index >= 0 THEN index + 1 ELSE Len(members)

\* array.splice(index, 0, element)
Splice(array, index, element) ==
    SubSeq(array, 1, index) \o <<element>> \o SubSeq(array, index + 1, Len(array))

\* new CatalogGroup(terria) with the id and name of the results group.
NewResultsGroup == [id |-> ResultsGroupId(FunctionId), name |-> <<FunctionName, "Results">>,
                    items |-> <<>>]

\* CatalogGroup.updateItems(items, {isUserSupplied: true}, group): a member the group has
\* by name is updated, any other is created as user-supplied and added.
RECURSIVE UpdateItems(_, _)
UpdateItems(members, held) ==
    IF members = <<>>
    THEN held
    ELSE LET member == Head(members)
             known == {k \in DOMAIN held : held[k].name = member.name}
             updated == IF known = {}
                        THEN Append(held, [isUserSupplied |-> TRUE] @@ member)
                        ELSE [k \in DOMAIN held |->
                                 IF k \in known
                                 THEN [isUserSupplied |-> held[k].isUserSupplied] @@ member
                                 ELSE held[k]]
         IN  UpdateItems(Tail(members), updated)

\* The items of the parent after the callback put the members in the results group.
WithResults(members, returned) ==
    LET found == ShareKeyIndex(members, ResultsGroupId(FunctionId))
        spliced == IF found = <<>>
                   THEN Splice(members, ResultsGroupIndex(members), NewResultsGroup)
                   ELSE members
        at == ShareKeyIndex(spliced, ResultsGroupId(FunctionId))[1]
    IN  [spliced EXCEPT ![at].items = UpdateItems(returned, @)]

\* The function is in a group between other members, or last in it, or has no parent
\* and the results go to the top-level group of the catalog.
FunctionInit ==
    /\ ShareIdle
    /\ ArcGisIdle
    /\ TilesIdle
    /\ ChartIdle
    /\ ExplorerIdle
    /\ windowListeners = {}
    /\ functionCatalog \in
           {NewFunctionCatalog,
            [hasParent |-> TRUE, items |-> <<[id |-> <<"above">>], [id |-> <<FunctionId>>]>>],
            [hasParent |-> FALSE, items |-> <<[id |-> <<"above">>], [id |-> <<"below">>]>>]}
    /\ invocations = <<>>
    /\ terriaCalls = <<>>

\* invoke(): the placeholder is created and the request sent; the placeholder is enabled
\* before invoke returns.
Invoke ==
    /\ Len(invocations) < MaxInvocations
    /\ LET n == Len(invocations) + 1
           overlaps == \E i \in DOMAIN invocations : invocations[i].state = "pending"
       IN  invocations' = Append(invocations,
                                 [NewAsyncResult(n, overlaps) EXCEPT !.isEnabled = TRUE])
    /\ UNCHANGED <<shareVars, arcgisVars, tilesVars, chartVars, explorerVars,
                   windowListeners, functionCatalog, terriaCalls>>

\* The request of the i-th call is answered with the r-th reply: the callback passed to
\* then runs.
RequestAnswered(i, r) ==
    /\ invocations[i].state = "pending"
    /\ LET json == Responses[r]
           disabled == [invocations[i] EXCEPT !.isEnabled = FALSE, !.reply = <<r>>,
                                              !.state = "fulfilled",
                                              !.handledBy = InvokeCase(json)]
           returned == ReturnedMembers(json, disabled)
       IN  IF InvokeCase(json) = "updateItems"
           THEN /\ invocations' =
                       [invocations EXCEPT ![i] =
                           [disabled EXCEPT !.members = returned,
                                            !.enabledWhenAdded = disabled.isEnabled]]
                /\ functionCatalog' =
                       [functionCatalog EXCEPT !.items = WithResults(@, returned)]
                /\ UNCHANGED terriaCalls
           ELSE /\ invocations' = [invocations EXCEPT ![i] = disabled]
                /\ terriaCalls' = Append(terriaCalls,
                                         [call |-> InvokeCase(json), invocation |-> i,
                                          json |-> json.value])
                /\ UNCHANGED functionCatalog
    /\ UNCHANGED <<shareVars, arcgisVars, tilesVars, chartVars, explorerVars,
                   windowListeners>>

\* The request of the i-th call fails: loadJson rejects, the callback does not run and
\* the promise invoke returned is rejected.
RequestFails(i) ==
    /\ invocations[i].state = "pending"
    /\ invocations' = [invocations EXCEPT ![i].state = "rejected"]
    /\ UNCHANGED <<shareVars, arcgisVars, tilesVars, chartVars, explorerVars,
                   windowListeners, functionCatalog, terriaCalls>>

FunctionNext ==
    \/ Invoke
    \/ \E i \in DOMAIN invocations, r \in DOMAIN Responses : RequestAnswered(i, r)
    \/ \E i \in DOMAIN invocations : RequestFails(i)

FunctionSpec == FunctionInit /\ [][FunctionNext]_vars

\* The calls whose request was answered, and the reply of such a call.
Answered == {i \in DOMAIN invocations : invocations[i].state = "fulfilled"}
ReplyOf(i) == Responses[invocations[i].reply[1]]

\* The calls of terria.updateFromStartData and terria.addInitSource made for a call.
CallsFor(i) == {k \in DOMAIN terriaCalls : terriaCalls[k].invocation = i}

\* The members a reply lists: the elements of an array, or the one object.
Listed(json) == IF json.isArray THEN json.value ELSE <<json.value>>

\* The reply of a call went to the terria method named and to nothing else, as it came.
HandedToTerria(i, method) ==
    /\ Cardinality(CallsFor(i)) = 1
    /\ \A k \in CallsFor(i) : /\ terriaCalls[k].call = method
                              /\ terriaCalls[k].json = ReplyOf(i).value
    /\ invocations[i].members = <<>>

\* The members of the reply of a call were given their defaults and nothing went to
\* terria.
MembersGivenDefaults(i) ==
    LET listed == Listed(ReplyOf(i))
        members == invocations[i].members
    IN  /\ CallsFor(i) = {}
        /\ Len(members) = Len(listed)
        /\ \A k \in DOMAIN listed :
              /\ members[k].isEnabled = IF "isEnabled" \in DOMAIN listed[k]
                                        THEN listed[k].isEnabled
                                        ELSE TRUE
              /\ members[k].name = IF "name" \in DOMAIN listed[k]
                                   THEN listed[k].name
                                   ELSE invocations[i].name
              /\ members[k].description = IF "description" \in DOMAIN listed[k]
                                          THEN listed[k].description
                                          ELSE invocations[i].description

\* Each answered call was handled by exactly one case.
HandledByOneCase ==
    \A i \in Answered :
        IF IsShareData(ReplyOf(i))
        THEN HandedToTerria(i, "updateFromStartData")
        ELSE IF HasCatalogArray(ReplyOf(i))
             THEN HandedToTerria(i, "addInitSource")
             ELSE MembersGivenDefaults(i)

\* C22: a reply is handled by exactly one case: share data goes to updateFromStartData,
\* otherwise a document with a catalog array goes to addInitSource, in both cases as it
\* came and with the catalog's groups left as they are; otherwise each member is enabled
\* unless it defines isEnabled, and gets the placeholder's name and description unless
\* it has its own.
C22_ReplyCases ==
    /\ []HandledByOneCase
    /\ [][\A i \in DOMAIN invocations :
             (/\ invocations[i].state = "pending"
              /\ invocations'[i].state = "fulfilled"
              /\ (IsShareData(Responses[invocations'[i].reply[1]])
                  \/ HasCatalogArray(Responses[invocations'[i].reply[1]])))
             => functionCatalog' = functionCatalog]_vars

\* Three calls were answered: with share data that has a catalog as well, with an init
\* source, and with an array of members.
C22_Witness ==
    /\ Len(invocations) = 3
    /\ Answered = {1, 2, 3}
    /\ invocations[1].reply = <<1>>
    /\ invocations[2].reply = <<2>>
    /\ invocations[3].reply = <<3>>
    /\ Len(terriaCalls) = 2
    /\ invocations[3].members[1].isEnabled
    /\ ~invocations[3].members[2].isEnabled

\* The positions of the results groups among the parent's items, and the calls that
\* returned members.
ResultsGroups ==
    {k \in DOMAIN functionCatalog.items :
        functionCatalog.items[k].id = ResultsGroupId(FunctionId)}
WithMembers == {i \in Answered : invocations[i].handledBy = "updateItems"}

\* C23: once calls have returned members, the parent's items hold exactly one results
\* group, directly below the function, or last when the function is not among the
\* items, and every member returned is in that group as user-supplied; before, there is
\* no results group.
C23_OneResultsGroup ==
    LET held == functionCatalog.items
    IN  IF WithMembers = {}
        THEN ResultsGroups = {}
        ELSE /\ Cardinality(ResultsGroups) = 1
             /\ \A g \in ResultsGroups :
                   /\ IF \E k \in DOMAIN held : held[k].id = <<FunctionId>>
                      THEN g > 1 /\ held[g - 1].id = <<FunctionId>>
                      ELSE g = Len(held)
                   /\ \A i \in WithMembers : \A m \in DOMAIN invocations[i].members :
                         \E h \in DOMAIN held[g].items :
                             /\ held[g].items[h].name = invocations[i].members[m].name
                             /\ held[g].items[h].isUserSupplied

\* Two requests overlapped and both returned members, to a function with a member
\* below it: the one results group holds the members of both.
C23_Witness ==
    /\ functionCatalog.hasParent
    /\ Len(functionCatalog.items) = 4
    /\ Len(invocations) >= 2
    /\ invocations[2].overlaps
    /\ {1, 2} \subseteq WithMembers
    /\ \A g \in ResultsGroups : Len(functionCatalog.items[g].items) >= 3

\* C30: the placeholder is enabled while the request is pending; once the promise that
\* invoke returned has settled, fulfilled or rejected, it is not enabled; and it was
\* disabled when the results were added.
C30_PlaceholderLifecycle ==
    \A i \in DOMAIN invocations :
        /\ invocations[i].state = "pending" => invocations[i].isEnabled
        /\ invocations[i].state \in {"fulfilled", "rejected"} => ~invocations[i].isEnabled
        /\ invocations[i].handledBy = "updateItems" => ~invocations[i].enabledWhenAdded

====
